---- MODULE Spec2Model ----
(***************************************************************************)
(* A model of the pull-request viewer's fetch-paginate-cache pipeline:      *)
(* CacheService (src/src/services/cache.service.ts) and GitHubService       *)
(* (src/src/services/github.service.ts).                                    *)
(*                                                                         *)
(* Strings are sequences of one-character strings, so that concatenation    *)
(* (\o), String.includes and key equality are computed, not assumed.        *)
(* An optional value (a parameter that may be undefined) is <<>> when it is *)
(* undefined and <<v>> when it is v.                                        *)
(***************************************************************************)
EXTENDS Integers, Sequences, FiniteSets, TLC

(***************************************************************************)
(* Bounds of the model.                                                     *)
(***************************************************************************)
\* Clock steps taken in one behaviour.
MaxTicks == 2
\* The largest maxPages option a call is given.
MaxPagesTried == 2
\* The largest perPage option of a single invocation, and so its longest page.
MaxPerPage == 2
\* The longest page served when two invocations run interleaved.
MaxPageLenTwo == 1
\* The largest maxPages option when two invocations run interleaved.
MaxPagesTwo == 1
\* Distinct pull requests the upstream may serve.
NumItems == 2
\* GitHubService objects constructed in one behaviour.
MaxServices == 2
\* The longest token a GitHubService is constructed with.
MaxTokenLen == 2
\* The longest owner, repository name and suffix a key is generated from.
MaxKeyPartLen == 2
\* The longest repository argument given to the validator.
MaxRepoLen == 5
\* How far below and above the 40-character threshold the tokens tried reach.
TokenSlack == 1
\* The longest list of pull requests given to the Formatter.
MaxListLen == 3

\* The fetch invocations of one process (each runs once).
Calls == {"c1", "c2"}

(***************************************************************************)
(* String literals of the source.                                           *)
(***************************************************************************)
StrSlash == <<"/">>
StrColon == <<":">>
StrDash == <<"-">>
StrPrsPrefix == <<"p","r","s","-">>
StrOpen == <<"o","p","e","n">>
StrClosed == <<"c","l","o","s","e","d">>
StrCreated == <<"c","r","e","a","t","e","d">>
StrDesc == <<"d","e","s","c">>
StrRelNext == <<"r","e","l","=","\"","n","e","x","t","\"">>
StrRateLimit == <<"r","a","t","e"," ","l","i","m","i","t">>
MsgRepository == <<"R","e","p","o","s","i","t","o","r","y"," ">>
MsgNotFoundTail == <<" ","n","o","t"," ","f","o","u","n","d"," ","o","r"," ","y","o","u"," ","d","o","n","'","t"," ","h","a","v","e"," ","a","c","c","e","s","s">>
MsgAuthFailed == <<"A","u","t","h","e","n","t","i","c","a","t","i","o","n"," ","f","a","i","l","e","d","."," ","P","l","e","a","s","e"," ","c","h","e","c","k"," ","y","o","u","r"," ","G","i","t","H","u","b"," ","t","o","k","e","n">>
MsgRateLimited == <<"G","i","t","H","u","b"," ","A","P","I"," ","r","a","t","e"," ","l","i","m","i","t"," ","e","x","c","e","e","d","e","d","."," ","P","l","e","a","s","e"," ","t","r","y"," ","a","g","a","i","n"," ","l","a","t","e","r">>
MsgForbidden == <<"A","c","c","e","s","s"," ","f","o","r","b","i","d","d","e","n","."," ","P","l","e","a","s","e"," ","c","h","e","c","k"," ","y","o","u","r"," ","t","o","k","e","n"," ","p","e","r","m","i","s","s","i","o","n","s">>
MsgFailedPrefix == <<"F","a","i","l","e","d"," ","t","o"," ","f","e","t","c","h"," ","p","u","l","l"," ","r","e","q","u","e","s","t","s",":"," ">>

(***************************************************************************)
(* Strings the upstream sends (the Link header and the error messages of    *)
(* the remote API, which the program only reads).                           *)
(***************************************************************************)
LinkWithNext == <<"<","u","?","p","a","g","e","=","2",">",";"," ","r","e","l","=","\"","n","e","x","t","\"",","," ","<","u","?","p","a","g","e","=","9",">",";"," ","r","e","l","=","\"","l","a","s","t","\"">>
LinkWithoutNext == <<"<","u","?","p","a","g","e","=","1",">",";"," ","r","e","l","=","\"","p","r","e","v","\"",","," ","<","u","?","p","a","g","e","=","1",">",";"," ","r","e","l","=","\"","f","i","r","s","t","\"">>
UpNotFound == <<"N","o","t"," ","F","o","u","n","d">>
UpBadCredentials == <<"B","a","d"," ","c","r","e","d","e","n","t","i","a","l","s">>
UpRateLimit == <<"A","P","I"," ","r","a","t","e"," ","l","i","m","i","t"," ","e","x","c","e","e","d","e","d"," ","f","o","r"," ","u","s","e","r">>
UpNotAccessible == <<"R","e","s","o","u","r","c","e"," ","n","o","t"," ","a","c","c","e","s","s","i","b","l","e"," ","b","y"," ","t","o","k","e","n">>
UpServerError == <<"S","e","r","v","e","r"," ","E","r","r","o","r">>
UpNetwork == <<"c","o","n","n","e","c","t"," ","E","C","O","N","N","R","E","S","E","T">>
UpObjectObject == <<"[","o","b","j","e","c","t"," ","O","b","j","e","c","t","]">>

(***************************************************************************)
(* JavaScript values: a type tag and a payload.  A number is an integer or  *)
(* NaN (what parseInt gives for a non-numeric option).                      *)
(***************************************************************************)
Null == [t |-> "null", v |-> <<>>]
Undefined == [t |-> "undefined", v |-> <<>>]
Num(n) == [t |-> "number", v |-> <<n>>]
NaN == [t |-> "number", v |-> <<>>]
Str(s) == [t |-> "string", v |-> s]
Bool(b) == [t |-> "boolean", v |-> <<b>>]
Obj(o) == [t |-> "object", v |-> <<o>>]

\* if (x): JavaScript's ToBoolean.
Truthy(x) ==
    CASE x.t = "null" -> FALSE
      [] x.t = "undefined" -> FALSE
      [] x.t = "number" -> x.v # <<>> /\ x.v[1] # 0
      [] x.t = "string" -> x.v # <<>>
      [] x.t = "boolean" -> x.v[1]
      [] OTHER -> TRUE

\* Mutant of LessOrEqual: the loop test written with < for <=.
LessOrEqual_Strict(i, m) == m.v # <<>> /\ i < m.v[1]

\* i <= m for an integer i and a number m: false when m is NaN.
LessOrEqual(i, m) == m.v # <<>> /\ i <= m.v[1]

\* haystack.includes(needle)
Includes(haystack, needle) ==
    \E i \in 0..(Len(haystack) - Len(needle)) :
        SubSeq(haystack, i + 1, i + Len(needle)) = needle

\* A destructuring default: `name = dflt` applies when the option is undefined.
WithDefault(opt, dflt) == IF opt = <<>> THEN dflt ELSE opt[1]

(***************************************************************************)
(* CacheService.  The Map is a sequence of entries in insertion order; an   *)
(* entry is [key, data, timestamp, ttl].                                    *)
(***************************************************************************)
defaultTTL == 5 * 60 * 1000

\* The position of a key in the Map (0 when the Map does not have it).
MapIndex(m, key) ==
    IF \E i \in 1..Len(m) : m[i].key = key
    THEN CHOOSE i \in 1..Len(m) : m[i].key = key
    ELSE 0

\* Map.set: a new key is appended, an existing key keeps its position.
MapSet(m, key, entry) ==
    IF MapIndex(m, key) = 0
    THEN Append(m, entry)
    ELSE [m EXCEPT ![MapIndex(m, key)] = entry]

\* Map.delete
MapDelete(m, key) == SelectSeq(m, LAMBDA e : e.key # key)

\* ttl ?? this.defaultTTL
TtlOrDefault(ttl) == IF ttl = <<>> THEN defaultTTL ELSE ttl[1]

\* Mutant of CacheSet: an existing entry is kept, not overwritten.
CacheSet_KeepExisting(m, key, data, ttl, t) ==
    IF MapIndex(m, key) # 0 THEN m
    ELSE Append(m, [key |-> key, data |-> data, timestamp |-> t,
                    ttl |-> TtlOrDefault(ttl)])

\* Mutant of CacheSet: overwriting an entry keeps the timestamp it had.
CacheSet_KeepTimestamp(m, key, data, ttl, t) ==
    MapSet(m, key, [key |-> key, data |-> data,
                    timestamp |-> IF MapIndex(m, key) = 0 THEN t
                                  ELSE m[MapIndex(m, key)].timestamp,
                    ttl |-> TtlOrDefault(ttl)])

\* CacheService.set: the Map after set(key, data, ttl) at time t.
CacheSet(m, key, data, ttl, t) ==
    MapSet(m, key, [key |-> key, data |-> data, timestamp |-> t,
                    ttl |-> TtlOrDefault(ttl)])

\* Mutant of IsExpired: the comparison written with >= for >.
IsExpired_AtTtl(entry, t) == t - entry.timestamp >= entry.ttl

\* const isExpired = Date.now() - entry.timestamp > entry.ttl
IsExpired(entry, t) == t - entry.timestamp > entry.ttl

\* Mutant of CacheGet: `return entry.data || null`.
CacheGet_FalsyIsNull(m, key, t) ==
    IF MapIndex(m, key) = 0 THEN Null
    ELSE IF IsExpired(m[MapIndex(m, key)], t) THEN Null
    ELSE IF Truthy(m[MapIndex(m, key)].data) THEN m[MapIndex(m, key)].data
    ELSE Null

\* CacheService.get: the value returned at time t.
CacheGet(m, key, t) ==
    IF MapIndex(m, key) = 0 THEN Null
    ELSE IF IsExpired(m[MapIndex(m, key)], t) THEN Null
    ELSE m[MapIndex(m, key)].data

\* Mutant of CacheAfterGet: get returns null for an expired entry and leaves it.
CacheAfterGet_NoEvict(m, key, t) == m

\* Mutant of CacheAfterGet: get sweeps every expired entry out of the Map.
CacheAfterGet_Sweep(m, key, t) == SelectSeq(m, LAMBDA e : ~IsExpired(e, t))

\* CacheService.get: the Map it leaves (an expired entry is deleted).
CacheAfterGet(m, key, t) ==
    IF MapIndex(m, key) # 0 /\ IsExpired(m[MapIndex(m, key)], t)
    THEN MapDelete(m, key)
    ELSE m

\* CacheService.generateKey(owner, repo, suffix?)
generateKey(owner, repo, suffix) ==
    LET base == owner \o StrSlash \o repo
    IN  IF suffix # <<>> /\ suffix[1] # <<>>
        THEN base \o StrColon \o suffix[1]
        ELSE base

(***************************************************************************)
(* GitHubService: pure parts.                                               *)
(***************************************************************************)
\* The destructuring of FetchPRsOptions with its defaults.
Destructure(o) ==
    [owner |-> o.owner,
     repo |-> o.repo,
     state |-> WithDefault(o.state, StrOpen),
     sort |-> WithDefault(o.sort, StrCreated),
     direction |-> WithDefault(o.direction, StrDesc),
     perPage |-> WithDefault(o.perPage, Num(30)),
     maxPages |-> WithDefault(o.maxPages, Num(5))]

\* Mutant of FetchCacheKey: the key also names the page size.
FetchCacheKey_WithPerPage(p) ==
    generateKey(p.owner, p.repo,
                <<StrPrsPrefix \o p.state \o StrDash \o p.sort \o StrDash \o p.direction
                  \o StrDash \o (IF p.perPage = Num(30) THEN <<"3", "0">> ELSE <<"n">>)>>)

\* Mutant of FetchCacheKey: the key is built without the direction.
FetchCacheKey_NoDirection(p) ==
    generateKey(p.owner, p.repo, <<StrPrsPrefix \o p.state \o StrDash \o p.sort>>)

\* CacheService.generateKey(owner, repo, `prs-${state}-${sort}-${direction}`)
FetchCacheKey(p) ==
    generateKey(p.owner, p.repo,
                <<StrPrsPrefix \o p.state \o StrDash \o p.sort \o StrDash \o p.direction>>)

\* mapToPullRequest: copies the fields of PullRequest, drops every other field.
mapToPullRequest(pr) ==
    [id |-> pr.id, number |-> pr.number, title |-> pr.title,
     user |-> [login |-> pr.user.login],
     created_at |-> pr.created_at, updated_at |-> pr.updated_at,
     labels |-> [i \in 1..Len(pr.labels) |->
                   [name |-> pr.labels[i].name,
                    description |-> pr.labels[i].description]],
     comments |-> pr.comments, review_comments |-> pr.review_comments]

\* response.data.map((pr) => this.mapToPullRequest(pr))
MapPage(data) == [i \in 1..Len(data) |-> mapToPullRequest(data[i])]

\* linkHeader ? linkHeader.includes('rel="next"') : false
LinkHasNext(link) ==
    IF link # <<>> /\ link[1] # <<>> THEN Includes(link[1], StrRelNext) ELSE FALSE

\* isOctokitError: an object with a `status` property of type number.
isOctokitError(e) ==
    e.isObject /\ e.status # <<>> /\ e.status[1].t = "number"

\* getErrorMessage: error.message of an Error, String(error) of anything else.
getErrorMessage(e) == IF e.isError THEN e.message ELSE e.asString

\* Mutant of ClassifyError: a 403 is reported as Forbidden whatever its message.
ClassifyError_NoRateLimit(e, owner, repo) ==
    IF isOctokitError(e) /\ e.status[1] = Num(404)
    THEN MsgRepository \o owner \o StrSlash \o repo \o MsgNotFoundTail
    ELSE IF isOctokitError(e) /\ e.status[1] = Num(401)
    THEN MsgAuthFailed
    ELSE IF isOctokitError(e) /\ e.status[1] = Num(403)
    THEN MsgForbidden
    ELSE MsgFailedPrefix \o getErrorMessage(e)

\* The catch block of fetchPullRequests: the message of the Error it throws.
ClassifyError(e, owner, repo) ==
    IF isOctokitError(e) /\ e.status[1] = Num(404)
    THEN MsgRepository \o owner \o StrSlash \o repo \o MsgNotFoundTail
    ELSE IF isOctokitError(e) /\ e.status[1] = Num(401)
    THEN MsgAuthFailed
    ELSE IF isOctokitError(e) /\ e.status[1] = Num(403)
    THEN IF Includes(e.message, StrRateLimit) THEN MsgRateLimited ELSE MsgForbidden
    ELSE MsgFailedPrefix \o getErrorMessage(e)

(***************************************************************************)
(* The upstream API: what one page request may answer.                      *)
(***************************************************************************)
\* A pull request as the API sends it (with a field the program does not keep).
RawPR(i) ==
    [id |-> 1000 + i, number |-> i, title |-> <<"t">>, node_id |-> i,
     user |-> [login |-> <<"a">>], created_at |-> NumItems - i, updated_at |-> i,
     labels |-> <<>>, comments |-> i - 1, review_comments |-> 0]

\* Pages of at most n distinct pull requests, in any order.
PagesUpTo(n) ==
    UNION { { s \in [1..k -> 1..NumItems] : \A i, j \in 1..k : i # j => s[i] # s[j] }
            : k \in 0..n }

\* A request for per_page items is answered with at most per_page items, and
\* the model serves pages of at most maxLen.
PageLimit(perPage, maxLen) == IF perPage.v[1] < maxLen THEN perPage.v[1] ELSE maxLen

\* The responses to a request for per_page items: a page and a Link header.
Responses(perPage, maxLen, links) ==
    { [data |-> [i \in 1..Len(s) |-> RawPR(s[i])], link |-> l] :
        s \in PagesUpTo(PageLimit(perPage, maxLen)), l \in links }

\* The Link header is absent, names a next page, or names none.
LinkHeaders == {<<>>, <<LinkWithNext>>, <<LinkWithoutNext>>}

\* The errors a request may throw: Octokit's RequestError (an Error with a
\* numeric status), a network Error without status, and a thrown plain object
\* whose status is not a number.
RequestError(status, message) ==
    [isObject |-> TRUE, isError |-> TRUE, status |-> <<Num(status)>>,
     message |-> message, asString |-> message]

NetworkError ==
    [isObject |-> TRUE, isError |-> TRUE, status |-> <<>>,
     message |-> UpNetwork, asString |-> UpNetwork]

UpstreamErrors ==
    { RequestError(404, UpNotFound),
      RequestError(401, UpBadCredentials),
      RequestError(403, UpRateLimit),
      RequestError(403, UpNotAccessible),
      RequestError(429, UpRateLimit),
      RequestError(500, UpServerError),
      NetworkError,
      [isObject |-> TRUE, isError |-> FALSE, status |-> <<Str(<<"4","0","3">>)>>,
       message |-> UpRateLimit, asString |-> UpObjectObject] }

\* The options the callers pass (index.ts always passes state, perPage and
\* maxPages, never sort or direction; perPage and maxPages come from parseInt,
\* '30' and '5' being the command line's defaults).
OptionsTried ==
    [owner : {<<"o">>},
     repo : {<<"r">>},
     state : {<<StrOpen>>, <<StrClosed>>},
     sort : {<<>>},
     direction : {<<>>},
     perPage : {<<Num(n)>> : n \in 1..MaxPerPage},
     maxPages : {<<Num(n)>> : n \in -1..MaxPagesTried} \cup {<<NaN>>}]

\* A second invocation that returns without awaiting (`--max-pages 0`).
OptionsTriedQuick ==
    [owner : {<<"o">>},
     repo : {<<"r">>},
     state : {<<StrOpen>>, <<StrClosed>>},
     sort : {<<>>},
     direction : {<<>>},
     perPage : {<<Num(30)>>},
     maxPages : {<<Num(0)>>}]

\* The options tried when two invocations run interleaved.
OptionsTriedTwo ==
    [owner : {<<"o">>},
     repo : {<<"r">>},
     state : {<<StrOpen>>, <<StrClosed>>},
     sort : {<<>>},
     direction : {<<>>},
     perPage : {<<Num(1)>>, <<Num(30)>>},
     maxPages : {<<Num(n)>> : n \in 0..MaxPagesTwo}]

(***************************************************************************)
(* State.                                                                   *)
(***************************************************************************)
VARIABLES
    now,      \* Date.now()
    ticks,    \* clock steps taken so far
    cache,    \* CacheService.instance.cache, the Map shared by every service
    call,     \* per invocation of fetchPullRequests: its position and locals
    hist,     \* per invocation: what it sent, received, and was served from
    storeLog, \* the invocations that stored a result, in order, since the last clear
    ret,      \* the last direct operation on the cache and what it returned
    written,  \* per key: the last set(key, ...) not followed by a delete or clear
    svc,      \* the GitHubService objects constructed and the verifyToken call
    cli       \* the command the process runs: its arguments, position and exit code

vars == <<now, ticks, cache, call, hist, storeLog, ret, written, svc, cli>>

\* The keys and values direct cache operations are tried with.
KeysTried == {generateKey(<<"o">>, <<"r">>, <<>>), generateKey(<<"o">>, <<"r">>, <<<<"x">>>>)}
ValuesTried == {Null, Num(0), Str(<<"v">>)}
TtlsTried == {<<>>, <<0>>, <<1>>}

NoOp == [op |-> "none", key |-> <<>>, val |-> Undefined, at |-> 0, found |-> "none"]

\* An invocation that has not started or has returned: no frame.
NoFrame(pc) ==
    [pc |-> pc, p |-> <<>>, cacheKey |-> <<>>, allPRs |-> <<>>, currentPage |-> 0,
     hasNextPage |-> FALSE, result |-> <<>>, error |-> <<>>]

NoHist ==
    [options |-> <<>>, key |-> <<>>, sent |-> <<>>, recv |-> <<>>, failure |-> <<>>,
     servedBy |-> <<>>, storedAt |-> <<>>, overlapped |-> FALSE, found |-> "none"]

\* A verifyToken call that has not started.
NoVerify ==
    [pc |-> "idle", on |-> 0, sent |-> 0, outcome |-> "pending", error |-> <<>>,
     result |-> <<>>, thrown |-> <<>>]

\* No GitHubService constructed yet: no client, CacheService.getInstance not called.
NoService ==
    [services |-> <<>>, clients |-> 0, instanceUses |-> 0, last |-> <<>>,
     verify |-> NoVerify]

\* The service the fetch runs on, constructed with a usable token.
ServiceReady ==
    [NoService EXCEPT !.services = <<[auth |-> <<"t">>]>>, !.clients = 1,
                      !.instanceUses = 1,
                      !.last = <<[token |-> Str(<<"t">>), thrown |-> <<>>]>>]

\* No command started yet.
NoRun ==
    [pc |-> "idle", cmd |-> "none", repository |-> Undefined, options |-> <<>>,
     token |-> Undefined, exit |-> <<>>, network |-> <<>>, frame |-> NoFrame("idle")]

Init ==
    /\ now = 0
    /\ ticks = 0
    /\ cache = <<>>
    /\ call = [c \in Calls |-> NoFrame("idle")]
    /\ hist = [c \in Calls |-> NoHist]
    /\ storeLog = <<>>
    /\ ret = NoOp
    /\ written = [k \in KeysTried |-> <<>>]
    /\ svc = ServiceReady
    /\ cli = NoRun

(***************************************************************************)
(* fetchPullRequests, one action per run between two awaits.                *)
(***************************************************************************)
\* Lines 98-111: build the result, cache it, return it.
Complete(rec, m, t) ==
    LET p == rec.p[1]
        result == [prs |-> rec.allPRs,
                   pagination |-> [page |-> rec.currentPage - 1,
                                   perPage |-> p.perPage,
                                   hasNextPage |-> rec.hasNextPage,
                                   totalFetched |-> Len(rec.allPRs)]]
    IN  [call |-> [NoFrame("done") EXCEPT !.result = <<result>>],
         cache |-> CacheSet(m, rec.cacheKey, Obj(result), <<>>, t),
         request |-> <<>>,
         stored |-> TRUE]

\* Line 71: the loop test; then either the next request or the completion.
LoopHead(rec, m, t) ==
    LET p == rec.p[1]
    IN  IF rec.hasNextPage /\ LessOrEqual(rec.currentPage, p.maxPages)
        THEN [call |-> [rec EXCEPT !.pc = "awaiting"],
              cache |-> m,
              request |-> <<[owner |-> p.owner, repo |-> p.repo, state |-> p.state,
                             sort |-> p.sort, direction |-> p.direction,
                             per_page |-> p.perPage, page |-> rec.currentPage]>>,
              stored |-> FALSE]
        ELSE Complete(rec, m, t)

\* Lines 47-71: destructure, read the cache, return a hit or enter the loop.
Enter(o, m, t) ==
    LET p == Destructure(o)
        cacheKey == FetchCacheKey(p)
        cached == CacheGet(m, cacheKey, t)
        m1 == CacheAfterGet(m, cacheKey, t)
        rec == [NoFrame("running") EXCEPT !.p = <<p>>, !.cacheKey = cacheKey,
                                          !.allPRs = <<>>, !.currentPage = 1,
                                          !.hasNextPage = TRUE]
    IN  IF Truthy(cached)
        THEN [call |-> [NoFrame("done") EXCEPT !.result = cached.v],
              cache |-> m1, request |-> <<>>, stored |-> FALSE]
        ELSE LoopHead(rec, m1, t)

\* Mutant of Resume: an empty page does not break out of the loop.
Resume_NoBreak(rec, resp, m, t) ==
    LoopHead([rec EXCEPT !.allPRs = @ \o MapPage(resp.data),
                         !.hasNextPage = LinkHasNext(resp.link),
                         !.currentPage = @ + 1], m, t)

\* Mutant of Resume: a page is put before, not after, the pages already held.
Resume_Prepends(rec, resp, m, t) ==
    IF Len(resp.data) = 0
    THEN Complete([rec EXCEPT !.hasNextPage = FALSE], m, t)
    ELSE LoopHead([rec EXCEPT !.allPRs = MapPage(resp.data) \o @,
                              !.hasNextPage = LinkHasNext(resp.link),
                              !.currentPage = @ + 1], m, t)

\* Lines 82-96 and on: the continuation after a page has arrived.
Resume(rec, resp, m, t) ==
    IF Len(resp.data) = 0
    THEN Complete([rec EXCEPT !.hasNextPage = FALSE], m, t)
    ELSE LoopHead([rec EXCEPT !.allPRs = @ \o MapPage(resp.data),
                              !.hasNextPage = LinkHasNext(resp.link),
                              !.currentPage = @ + 1], m, t)

\* Mutant of Fail: the catch block returns what was accumulated so far.
Fail_ReturnsPartial(rec, e) ==
    [NoFrame("done") EXCEPT
        !.result = <<[prs |-> rec.allPRs,
                      pagination |-> [page |-> rec.currentPage - 1,
                                      perPage |-> rec.p[1].perPage,
                                      hasNextPage |-> FALSE,
                                      totalFetched |-> Len(rec.allPRs)]]>>]

\* Lines 112-126: the continuation after a request has thrown.
Fail(rec, e) ==
    [NoFrame("failed") EXCEPT
        !.error = <<ClassifyError(e, rec.p[1].owner, rec.p[1].repo)>>]

\* The query of an invocation: what "identical parameters" compares.
Query(o) ==
    LET p == Destructure(o)
    IN  <<p.owner, p.repo, p.state, p.sort, p.direction>>

\* The latest invocation in the store log with the query of `o` whose result
\* was stored at most five minutes before t (<<>> when there is none).
LatestStore(o, t) ==
    LET hits == { i \in 1..Len(storeLog) :
                    /\ Query(hist[storeLog[i]].options[1]) = Query(o)
                    /\ t - hist[storeLog[i]].storedAt[1] <= 5 * 60 * 1000 }
    IN  IF hits = {} THEN <<>>
        ELSE <<storeLog[CHOOSE i \in hits : \A j \in hits : j <= i]>>

\* The other invocations that are waiting for a page under the same key.
InFlight(c, key) ==
    { d \in Calls \ {c} : call[d].pc = "awaiting" /\ call[d].cacheKey = key }

\* The step of invocation c with outcome `out`, and what the history keeps of it.
Record(c, out, h) ==
    /\ call' = [call EXCEPT ![c] = out.call]
    /\ cache' = out.cache
    /\ storeLog' = IF out.stored THEN Append(storeLog, c) ELSE storeLog
    /\ hist' = [d \in Calls |->
                 IF d = c
                 THEN [h EXCEPT !.sent = @ \o out.request,
                                !.storedAt = IF out.stored THEN <<now>> ELSE @,
                                !.overlapped = @ \/ (out.call.pc = "awaiting"
                                                     /\ InFlight(c, out.call.cacheKey) # {})]
                 ELSE [hist[d] EXCEPT !.overlapped =
                          @ \/ (out.call.pc = "awaiting" /\ d \in InFlight(c, out.call.cacheKey))]]

\* What the Map holds under a key at time t: no entry, one within its
\* time-to-live, or one past it.
Found(m, key, t) ==
    IF \A i \in 1..Len(m) : m[i].key # key THEN "none"
    ELSE IF \E i \in 1..Len(m) : m[i].key = key /\ t - m[i].timestamp > m[i].ttl
    THEN "stale"
    ELSE "fresh"

StartFetch(c, o) ==
    /\ call[c].pc = "idle"
    /\ Record(c, Enter(o, cache, now),
              [hist[c] EXCEPT !.options = <<o>>,
                              !.key = FetchCacheKey(Destructure(o)),
                              !.servedBy = LatestStore(o, now),
                              !.found = Found(cache, FetchCacheKey(Destructure(o)), now)])
    /\ UNCHANGED <<cli, svc, now, ticks, ret, written>>

PageResponse(c, maxLen, links) ==
    /\ call[c].pc = "awaiting"
    /\ \E resp \in Responses(call[c].p[1].perPage, maxLen, links) :
          Record(c, Resume(call[c], resp, cache, now),
                 [hist[c] EXCEPT !.recv = Append(@, resp)])
    /\ UNCHANGED <<cli, svc, now, ticks, ret, written>>

PageError(c, e) ==
    /\ call[c].pc = "awaiting"
    /\ call' = [call EXCEPT ![c] = Fail(call[c], e)]
    /\ hist' = [hist EXCEPT ![c].failure = <<e>>]
    /\ UNCHANGED <<cli, svc, now, ticks, cache, storeLog, ret, written>>

\* Time passes: a millisecond, or the default time-to-live.
Tick(d) ==
    /\ ticks < MaxTicks
    /\ now' = now + d
    /\ ticks' = ticks + 1
    /\ UNCHANGED <<cli, svc, cache, call, hist, storeLog, ret, written>>

\* CacheService.clear (the `cache --clear` command).
Clear ==
    /\ cache' = <<>>
    /\ storeLog' = <<>>
    /\ UNCHANGED <<cli, svc, now, ticks, call, hist, ret, written>>

\* One invocation with every option, page and error, beside one that returns
\* at once.
Next ==
    \/ \E o \in OptionsTried : StartFetch("c1", o)
    \/ \E o \in OptionsTriedQuick : StartFetch("c2", o)
    \/ PageResponse("c1", MaxPerPage, LinkHeaders)
    \/ \E e \in UpstreamErrors : PageError("c1", e)
    \/ \E d \in {1, defaultTTL} : Tick(d)
    \/ Clear

Spec == Init /\ [][Next]_vars

\* Two invocations whose runs interleave at the awaits.
NextTwo ==
    \/ \E c \in Calls, o \in OptionsTriedTwo : StartFetch(c, o)
    \/ \E c \in Calls : PageResponse(c, MaxPageLenTwo, {<<>>, <<LinkWithNext>>})
    \/ \E c \in Calls, e \in {RequestError(404, UpNotFound), NetworkError} : PageError(c, e)
    \/ \E d \in {1, defaultTTL} : Tick(d)
    \/ Clear

SpecTwo == Init /\ [][NextTwo]_vars

(***************************************************************************)
(* Direct operations on the cache, one action per method of CacheService.   *)
(***************************************************************************)
\* The record of an operation: what it was called with, what it returned, when,
\* and whether the Map held an entry for its key when it was called ("none",
\* "fresh" within its time-to-live, "stale" past it).
Returned(op, key, val) ==
    [op |-> op, key |-> key, val |-> val, at |-> now,
     found |-> IF MapIndex(cache, key) = 0 THEN "none"
               ELSE IF now - cache[MapIndex(cache, key)].timestamp
                         > cache[MapIndex(cache, key)].ttl THEN "stale"
               ELSE "fresh"]

OpSet(key, data, ttl) ==
    /\ cache' = CacheSet(cache, key, data, ttl, now)
    /\ ret' = Returned("set", key, Undefined)
    /\ written' = [written EXCEPT ![key] = <<[data |-> data, ttl |-> ttl, at |-> now]>>]
    /\ UNCHANGED <<cli, svc, now, ticks, call, hist, storeLog>>

OpGet(key) ==
    /\ cache' = CacheAfterGet(cache, key, now)
    /\ ret' = Returned("get", key, CacheGet(cache, key, now))
    /\ UNCHANGED <<cli, svc, now, ticks, call, hist, storeLog, written>>

\* has: return this.get(key) !== null
OpHas(key) ==
    /\ cache' = CacheAfterGet(cache, key, now)
    /\ ret' = Returned("has", key, Bool(CacheGet(cache, key, now) # Null))
    /\ UNCHANGED <<cli, svc, now, ticks, call, hist, storeLog, written>>

\* Mutant of OpDelete: delete reports whether an unexpired entry was removed
\* (`const had = this.has(key); this.cache.delete(key); return had`).
OpDelete_ReportsLive(key) ==
    /\ cache' = MapDelete(cache, key)
    /\ ret' = Returned("delete", key, Bool(CacheGet(cache, key, now) # Null))
    /\ written' = [written EXCEPT ![key] = <<>>]
    /\ UNCHANGED <<cli, svc, now, ticks, call, hist, storeLog>>

\* delete: return this.cache.delete(key)
OpDelete(key) ==
    /\ cache' = MapDelete(cache, key)
    /\ ret' = Returned("delete", key, Bool(MapIndex(cache, key) # 0))
    /\ written' = [written EXCEPT ![key] = <<>>]
    /\ UNCHANGED <<cli, svc, now, ticks, call, hist, storeLog>>

OpClear ==
    /\ cache' = <<>>
    /\ ret' = Returned("clear", <<>>, Undefined)
    /\ written' = [k \in KeysTried |-> <<>>]
    /\ UNCHANGED <<cli, svc, now, ticks, call, hist, storeLog>>

\* getStats: { size: this.cache.size, keys: Array.from(this.cache.keys()) }
OpGetStats ==
    /\ ret' = Returned("getStats", <<>>,
                       Obj([size |-> Len(cache),
                            keys |-> [i \in 1..Len(cache) |-> cache[i].key]]))
    /\ UNCHANGED <<cli, svc, now, ticks, cache, call, hist, storeLog, written>>

NextCache ==
    \/ \E k \in KeysTried, v \in ValuesTried, ttl \in TtlsTried : OpSet(k, v, ttl)
    \/ \E k \in KeysTried : OpGet(k)
    \/ \E k \in KeysTried : OpHas(k)
    \/ \E k \in KeysTried : OpDelete(k)
    \/ OpClear
    \/ OpGetStats
    \/ \E d \in {1, defaultTTL} : Tick(d)

SpecCache == Init /\ [][NextCache]_vars

(***************************************************************************)
(* GitHubService: the constructor and verifyToken.                          *)
(***************************************************************************)
MsgTokenRequired == <<"G","i","t","H","u","b"," ","t","o","k","e","n"," ","i","s"," ","r","e","q","u","i","r","e","d">>

\* String.prototype.trim: leading and trailing white space removed.
IsSpace(ch) == ch \in {" ", "\t", "\n"}

Trim(str) ==
    LET keep == {i \in 1..Len(str) : ~IsSpace(str[i])}
    IN  IF keep = {} THEN <<>>
        ELSE SubSeq(str, CHOOSE i \in keep : \A j \in keep : i <= j,
                         CHOOSE i \in keep : \A j \in keep : j <= i)

\* The tokens a service is constructed with: an unset variable, and strings.
TokensTried ==
    {Undefined} \cup {Str(x) : x \in UNION {[1..k -> {"t", " "}] : k \in 0..MaxTokenLen}}

\* The failures of the identity probe.
ProbeErrors ==
    {RequestError(401, UpBadCredentials), RequestError(403, UpRateLimit), NetworkError}

\* Mutant of Construct: the token is tested for emptiness only, not trimmed.
Construct_NoTrim(token) ==
    /\ IF ~Truthy(token)
       THEN svc' = [svc EXCEPT !.last = <<[token |-> token,
                                           thrown |-> <<MsgTokenRequired>>]>>]
       ELSE /\ Len(svc.services) < MaxServices
            /\ svc' = [svc EXCEPT !.services = Append(@, [auth |-> token.v]),
                                  !.clients = @ + 1,
                                  !.instanceUses = @ + 1,
                                  !.last = <<[token |-> token, thrown |-> <<>>]>>]
    /\ UNCHANGED <<cli, now, ticks, cache, call, hist, storeLog, ret, written>>

\* new GitHubService(token): throws on an empty or blank token, and otherwise
\* creates the client and takes the CacheService instance.
Construct(token) ==
    /\ IF ~Truthy(token) \/ Trim(token.v) = <<>>
       THEN svc' = [svc EXCEPT !.last = <<[token |-> token,
                                           thrown |-> <<MsgTokenRequired>>]>>]
       ELSE /\ Len(svc.services) < MaxServices
            /\ svc' = [svc EXCEPT !.services = Append(@, [auth |-> token.v]),
                                  !.clients = @ + 1,
                                  !.instanceUses = @ + 1,
                                  !.last = <<[token |-> token, thrown |-> <<>>]>>]
    /\ UNCHANGED <<cli, now, ticks, cache, call, hist, storeLog, ret, written>>

\* verifyToken up to its await: the identity probe is sent.
StartVerify(i) ==
    /\ i \in 1..Len(svc.services)
    /\ svc.verify.pc \in {"idle", "done"}
    /\ svc' = [svc EXCEPT !.verify = [NoVerify EXCEPT !.pc = "awaiting", !.on = i,
                                                      !.sent = 1]]
    /\ UNCHANGED <<cli, now, ticks, cache, call, hist, storeLog, ret, written>>

\* The probe succeeds: return true.
ProbeOk ==
    /\ svc.verify.pc = "awaiting"
    /\ svc' = [svc EXCEPT !.verify.pc = "done", !.verify.outcome = "ok",
                          !.verify.result = <<Bool(TRUE)>>]
    /\ UNCHANGED <<cli, now, ticks, cache, call, hist, storeLog, ret, written>>

\* Mutant of ProbeFail: the catch block rethrows.
ProbeFail_Rethrows(e) ==
    /\ svc.verify.pc = "awaiting"
    /\ svc' = [svc EXCEPT !.verify.pc = "done", !.verify.outcome = "failed",
                          !.verify.error = <<e>>,
                          !.verify.thrown = <<getErrorMessage(e)>>]
    /\ UNCHANGED <<cli, now, ticks, cache, call, hist, storeLog, ret, written>>

\* The probe throws: the catch block returns false.
ProbeFail(e) ==
    /\ svc.verify.pc = "awaiting"
    /\ svc' = [svc EXCEPT !.verify.pc = "done", !.verify.outcome = "failed",
                          !.verify.error = <<e>>,
                          !.verify.result = <<Bool(FALSE)>>]
    /\ UNCHANGED <<cli, now, ticks, cache, call, hist, storeLog, ret, written>>

\* As Init, before any GitHubService is constructed.
InitService ==
    /\ now = 0
    /\ ticks = 0
    /\ cache = <<>>
    /\ call = [c \in Calls |-> NoFrame("idle")]
    /\ hist = [c \in Calls |-> NoHist]
    /\ storeLog = <<>>
    /\ ret = NoOp
    /\ written = [k \in KeysTried |-> <<>>]
    /\ svc = NoService
    /\ cli = NoRun

\* Services are constructed and verified while the cache is written and ages.
NextService ==
    \/ \E token \in TokensTried : Construct(token)
    \/ \E i \in 1..MaxServices : StartVerify(i)
    \/ ProbeOk
    \/ \E e \in ProbeErrors : ProbeFail(e)
    \/ OpSet(generateKey(<<"o">>, <<"r">>, <<>>), Str(<<"v">>), <<1>>)
    \/ \E d \in {1, defaultTTL} : Tick(d)

SpecService == InitService /\ [][NextService]_vars

(***************************************************************************)
(* Validator (src/src/utils/validator.ts).                                  *)
(***************************************************************************)
\* String.prototype.split with a one-character separator.
RECURSIVE Split(_, _)
Split(str, sep) ==
    IF \A i \in 1..Len(str) : str[i] # sep
    THEN <<str>>
    ELSE LET i == CHOOSE j \in 1..Len(str) :
                      str[j] = sep /\ \A h \in 1..(j - 1) : str[h] # sep
         IN  <<SubSeq(str, 1, i - 1)>> \o Split(SubSeq(str, i + 1, Len(str)), sep)

\* Mutant of isValidRepoFormat: `parts.length >= 2`.
isValidRepoFormat_AtLeastTwo(repo) ==
    IF ~Truthy(repo) \/ repo.t # "string" THEN FALSE
    ELSE LET parts == Split(repo.v, "/")
         IN  Len(parts) >= 2 /\ Len(parts[1]) > 0 /\ Len(parts[2]) > 0

\* Validator.isValidRepoFormat
isValidRepoFormat(repo) ==
    IF ~Truthy(repo) \/ repo.t # "string" THEN FALSE
    ELSE LET parts == Split(repo.v, "/")
         IN  Len(parts) = 2 /\ Len(parts[1]) > 0 /\ Len(parts[2]) > 0

\* Validator.parseRepo
parseRepo(repo) ==
    IF ~isValidRepoFormat(repo) THEN Null
    ELSE LET parts == Split(repo.v, "/")
         IN  Obj([owner |-> Str(parts[1]), repo |-> Str(parts[2])])

StrGhp == <<"g","h","p","_">>
StrGithubPat == <<"g","i","t","h","u","b","_","p","a","t","_">>

\* String.prototype.startsWith
StartsWith(str, prefix) ==
    Len(str) >= Len(prefix) /\ SubSeq(str, 1, Len(prefix)) = prefix

\* /^[a-f0-9]+$/i
IsHexString(str) ==
    /\ str # <<>>
    /\ \A i \in 1..Len(str) :
          str[i] \in {"0","1","2","3","4","5","6","7","8","9",
                      "a","b","c","d","e","f","A","B","C","D","E","F"}

\* Validator.isValidTokenFormat
isValidTokenFormat(token) ==
    IF ~Truthy(token) \/ token.t # "string" THEN FALSE
    ELSE LET trimmed == Trim(token.v)
         IN  /\ Len(trimmed) >= 40
             /\ \/ StartsWith(trimmed, StrGhp)
                \/ StartsWith(trimmed, StrGithubPat)
                \/ IsHexString(trimmed)

(***************************************************************************)
(* The functions that read no state, each applied once to an argument.      *)
(***************************************************************************)
\* The strings of at most n characters over an alphabet.
StringsOver(chars, n) == UNION {[1..k -> chars] : k \in 0..n}

KeyPartsTried == StringsOver({"o", "/", ":"}, MaxKeyPartLen)
SuffixesTried == {<<>>} \cup {<<x>> : x \in KeyPartsTried}
ReposTried ==
    {Null, Undefined, Num(0), Num(123)}
        \cup {Str(x) : x \in StringsOver({"o", "r", "/"}, MaxRepoLen)}

\* Token strings around the length threshold: a prefix, one character
\* repeated, and optional white space before and after.
Repeat(ch, n) == [i \in 1..n |-> ch]

TokenStringsTried ==
    { lead \o prefix \o Repeat(fill, n - Len(prefix)) \o trail :
        lead \in {<<>>, <<" ">>},
        prefix \in {<<>>, StrGhp, StrGithubPat, <<"g","h","x","_">>},
        fill \in {"a", "F", "9", "z"},
        n \in (40 - TokenSlack)..(40 + TokenSlack),
        trail \in {<<>>, <<" ">>, <<"\n">>} }

FormatTokensTried ==
    {Null, Undefined, Str(<<>>), Str(<<"s","h","o","r","t">>)}
        \cup {Str(x) : x \in TokenStringsTried}

OpGenerateKey(owner, repo, suffix) ==
    /\ ret.op = "none"
    /\ ret' = Returned("generateKey", <<owner, repo, suffix>>,
                       Str(generateKey(owner, repo, suffix)))
    /\ UNCHANGED <<cli, svc, now, ticks, cache, call, hist, storeLog, written>>

OpIsValidRepoFormat(repo) ==
    /\ ret.op = "none"
    /\ ret' = Returned("isValidRepoFormat", repo, Bool(isValidRepoFormat(repo)))
    /\ UNCHANGED <<cli, svc, now, ticks, cache, call, hist, storeLog, written>>

OpParseRepo(repo) ==
    /\ ret.op = "none"
    /\ ret' = Returned("parseRepo", repo, parseRepo(repo))
    /\ UNCHANGED <<cli, svc, now, ticks, cache, call, hist, storeLog, written>>

OpIsValidTokenFormat(token) ==
    /\ ret.op = "none"
    /\ ret' = Returned("isValidTokenFormat", token, Bool(isValidTokenFormat(token)))
    /\ UNCHANGED <<cli, svc, now, ticks, cache, call, hist, storeLog, written>>

NextPure ==
    \/ \E owner \in KeyPartsTried, repo \in KeyPartsTried, suffix \in SuffixesTried :
          OpGenerateKey(owner, repo, suffix)
    \/ \E repo \in ReposTried : OpIsValidRepoFormat(repo)
    \/ \E repo \in ReposTried : OpParseRepo(repo)
    \/ \E token \in FormatTokensTried : OpIsValidTokenFormat(token)

SpecPure == Init /\ [][NextPure]_vars

(***************************************************************************)
(* The command line (src/src/index.ts): one command per process.            *)
(***************************************************************************)
StrCompact == <<"c","o","m","p","a","c","t">>
StrDetailed == <<"d","e","t","a","i","l","e","d">>
StrJson == <<"j","s","o","n">>
StrUpdated == <<"u","p","d","a","t","e","d">>
StrComments == <<"c","o","m","m","e","n","t","s">>
StrTitle == <<"t","i","t","l","e">>
StrAsc == <<"a","s","c">>

\* Validator.isValidDisplayFormat, isValidSortField, isValidSortDirection
isValidDisplayFormat(format) ==
    format.t = "string" /\ format.v \in {StrCompact, StrDetailed, StrJson}

isValidSortField(field) ==
    field.t = "string" /\ field.v \in {StrCreated, StrUpdated, StrComments, StrTitle}

isValidSortDirection(direction) ==
    direction.t = "string" /\ direction.v \in {StrAsc, StrDesc}

\* parseInt(str, 10): the leading decimal digits, after an optional sign; NaN
\* when there is none.
DigitValue(ch) ==
    CASE ch = "0" -> 0 [] ch = "1" -> 1 [] ch = "2" -> 2 [] ch = "3" -> 3
      [] ch = "4" -> 4 [] ch = "5" -> 5 [] ch = "6" -> 6 [] ch = "7" -> 7
      [] ch = "8" -> 8 [] ch = "9" -> 9 [] OTHER -> -1

RECURSIVE LeadingDigits(_, _, _)
LeadingDigits(str, i, acc) ==
    IF i > Len(str) \/ DigitValue(str[i]) < 0 THEN <<i, acc>>
    ELSE LeadingDigits(str, i + 1, 10 * acc + DigitValue(str[i]))

ParseInt(str) ==
    LET negative == str # <<>> /\ str[1] = "-"
        first == IF str # <<>> /\ str[1] \in {"-", "+"} THEN 2 ELSE 1
        read == LeadingDigits(str, first, 0)
    IN  IF read[1] = first THEN NaN
        ELSE Num(IF negative THEN 0 - read[2] ELSE read[2])

\* process.exit(code), or the end of the command (code 0).
Exit(run, code) ==
    [run EXCEPT !.pc = "exited", !.exit = <<code>>, !.frame = NoFrame("idle")]

\* Lines 250-272 of the fetch command: which of its checks calls process.exit(1).
FetchArgumentsRejected(repository, o) ==
    \/ parseRepo(repository) = Null
    \/ ~isValidDisplayFormat(o.format)
    \/ Truthy(o.sort) /\ ~isValidSortField(o.sort)
    \/ Truthy(o.direction) /\ ~isValidSortDirection(o.direction)

\* getGitHubToken: process.exit(1) on a missing or malformed token.
TokenRejected(token) == ~Truthy(token) \/ ~isValidTokenFormat(token)

\* new GitHubService(token) throws (and the command's catch block exits).
ConstructorThrows(token) == ~Truthy(token) \/ Trim(token.v) = <<>>

ServiceMade(token) ==
    [svc EXCEPT !.services = Append(@, [auth |-> token.v]),
                !.clients = @ + 1,
                !.instanceUses = @ + 1,
                !.last = <<[token |-> token, thrown |-> <<>>]>>]

\* The options the commands call fetchPullRequests with.
FetchOptionsOf(run) ==
    LET repoData == parseRepo(run.repository).v[1]
        o == run.options[1]
    IN  [owner |-> repoData.owner.v,
         repo |-> repoData.repo.v,
         state |-> <<o.state.v>>,
         sort |-> <<>>,
         direction |-> <<>>,
         perPage |-> IF run.cmd = "fetch" THEN <<ParseInt(o.perPage.v)>> ELSE <<Num(30)>>,
         maxPages |-> IF run.cmd = "fetch" THEN <<ParseInt(o.maxPages.v)>> ELSE <<Num(5)>>]

\* The command after a run of fetchPullRequests between two awaits: it waits
\* for the page it requested, or prints the result and ends.
AfterFetchStep(run, out) ==
    LET sent == [run EXCEPT !.network =
                     @ \o (IF out.request = <<>> THEN <<>> ELSE <<"pulls.list">>)]
    IN  IF out.call.pc = "done" THEN Exit(sent, 0)
        ELSE [sent EXCEPT !.pc = "fetching", !.frame = out.call]

\* The fetch command up to its first await.
CliFetch(repository, o, token) ==
    /\ cli.pc = "idle"
    /\ LET run == [NoRun EXCEPT !.cmd = "fetch", !.repository = repository,
                                !.options = <<o>>, !.token = token]
           stop == \/ FetchArgumentsRejected(repository, o)
                   \/ TokenRejected(token)
                   \/ ConstructorThrows(token)
       IN  /\ cli' = IF stop THEN Exit(run, 1)
                     ELSE [run EXCEPT !.pc = "verifying",
                                      !.network = <<"users.getAuthenticated">>]
           /\ svc' = IF stop THEN svc ELSE ServiceMade(token)
    /\ UNCHANGED <<now, ticks, cache, call, hist, storeLog, ret, written>>

\* Interactive mode from the end of its prompts to its first network await.
\* The repository prompt only returns an answer isValidRepoFormat accepts.
CliInteractive(repository, o, token) ==
    /\ cli.pc = "idle"
    /\ isValidRepoFormat(repository)
    /\ LET run == [NoRun EXCEPT !.cmd = "interactive", !.repository = repository,
                                !.options = <<o>>, !.token = token]
           stop == \/ parseRepo(repository) = Null
                   \/ TokenRejected(token)
                   \/ ConstructorThrows(token)
       IN  /\ cli' = IF stop THEN Exit(run, 1)
                     ELSE [run EXCEPT !.pc = "verifying",
                                      !.network = <<"users.getAuthenticated">>]
           /\ svc' = IF stop THEN svc ELSE ServiceMade(token)
    /\ UNCHANGED <<now, ticks, cache, call, hist, storeLog, ret, written>>

\* The rate-limit command up to its await.
CliRateLimit(token) ==
    /\ cli.pc = "idle"
    /\ LET run == [NoRun EXCEPT !.cmd = "rate-limit", !.token = token]
           stop == TokenRejected(token) \/ ConstructorThrows(token)
       IN  /\ cli' = IF stop THEN Exit(run, 1)
                     ELSE [run EXCEPT !.pc = "rateLimit",
                                      !.network = <<"rateLimit.get">>]
           /\ svc' = IF stop THEN svc ELSE ServiceMade(token)
    /\ UNCHANGED <<now, ticks, cache, call, hist, storeLog, ret, written>>

\* verifyToken has answered: exit on false, else call fetchPullRequests.
CliVerified(ok) ==
    /\ cli.pc = "verifying"
    /\ IF ~ok
       THEN cli' = Exit(cli, 1) /\ cache' = cache
       ELSE LET out == Enter(FetchOptionsOf(cli), cache, now)
            IN  cli' = AfterFetchStep(cli, out) /\ cache' = out.cache
    /\ UNCHANGED <<now, ticks, call, hist, storeLog, ret, written, svc>>

\* A page has arrived.
CliPageResponse(maxLen, links) ==
    /\ cli.pc = "fetching"
    /\ \E resp \in Responses(cli.frame.p[1].perPage, maxLen, links) :
          LET out == Resume(cli.frame, resp, cache, now)
          IN  cli' = AfterFetchStep(cli, out) /\ cache' = out.cache
    /\ UNCHANGED <<now, ticks, call, hist, storeLog, ret, written, svc>>

\* A page request has thrown: fetchPullRequests throws, the catch block exits.
CliPageError(e) ==
    /\ cli.pc = "fetching"
    /\ cli' = Exit(cli, 1)
    /\ UNCHANGED <<now, ticks, cache, call, hist, storeLog, ret, written, svc>>

\* getRateLimit has answered or thrown.
CliRateLimitSettled(ok) ==
    /\ cli.pc = "rateLimit"
    /\ cli' = Exit(cli, IF ok THEN 0 ELSE 1)
    /\ UNCHANGED <<now, ticks, cache, call, hist, storeLog, ret, written, svc>>

\* The arguments, options and GITHUB_TOKEN values the commands are run with.
StrBogus == <<"b","o","g","u","s">>

RepositoriesTried ==
    {Str(<<"o", "/", "r">>), Str(<<"o">>), Str(<<"o", "/", "r", "/", "x">>), Str(<<"/", "r">>)}

CliOptionsTried ==
    [format : {Str(StrCompact), Str(StrJson), Str(StrBogus), Str(<<>>)},
     sort : {Str(StrCreated), Str(StrTitle), Str(StrBogus), Str(<<>>)},
     direction : {Str(StrAsc), Str(StrDesc), Str(StrBogus), Str(<<>>)},
     state : {Str(StrOpen)},
     perPage : {Str(<<"1">>)},
     maxPages : {Str(<<"1">>), Str(<<"2">>), Str(<<"0">>), Str(<<"a", "b", "c">>)}]

AnswersTried ==
    [format : {Str(StrCompact), Str(StrJson)},
     sort : {Str(StrCreated), Str(StrTitle)},
     direction : {Str(StrAsc), Str(StrDesc)},
     state : {Str(StrOpen), Str(StrClosed)},
     perPage : {Undefined},
     maxPages : {Undefined}]

EnvTokensTried ==
    {Undefined, Str(<<>>), Str(<<"s","h","o","r","t">>), Str(Repeat(" ", 40)),
     Str(Repeat("a", 40)), Str(StrGhp \o Repeat("z", 36)),
     Str(<<" ">> \o StrGhp \o Repeat("z", 36) \o <<"\n">>)}

\* As Init, in a process that has made no service yet.
InitCli == InitService

NextCli ==
    \/ \E repository \in RepositoriesTried, o \in CliOptionsTried, token \in EnvTokensTried :
          CliFetch(repository, o, token)
    \/ \E repository \in RepositoriesTried, o \in AnswersTried, token \in EnvTokensTried :
          CliInteractive(repository, o, token)
    \/ \E token \in EnvTokensTried : CliRateLimit(token)
    \/ \E ok \in BOOLEAN : CliVerified(ok)
    \/ CliPageResponse(MaxPageLenTwo, LinkHeaders)
    \/ \E e \in ProbeErrors : CliPageError(e)
    \/ \E ok \in BOOLEAN : CliRateLimitSettled(ok)

SpecCli == InitCli /\ [][NextCli]_vars

(***************************************************************************)
(* Formatter (src/unnamed/part_000): filter, sort and format a list of pull *)
(* requests.  A pull request carries the fields these functions read;       *)
(* created_at is the time its date string denotes; the label "y" has no     *)
(* description (GitHubLabel.description is optional).                       *)
(***************************************************************************)
PR(number, title, login, labels, comments, review_comments, created_at) ==
    [number |-> number, title |-> title, user |-> [login |-> login],
     labels |-> [i \in 1..Len(labels) |->
                   [name |-> labels[i],
                    description |-> IF labels[i] = <<"y">> THEN Undefined
                                    ELSE Str(<<"d">>)]],
     comments |-> comments, review_comments |-> review_comments,
     created_at |-> created_at, updated_at |-> created_at + comments]

\* Pull requests with equal and different authors, labels, counts, dates, titles.
PullRequestsTried ==
    { PR(1, <<"z">>, <<"a">>, <<>>, 0, 0, 3),
      PR(2, <<"a">>, <<"A">>, <<<<"x">>>>, 1, 0, 1),
      PR(3, <<"b">>, <<"b">>, <<<<"y">>, <<"X">>>>, 0, 1, 2),
      PR(4, <<"a", "b">>, <<"b">>, <<<<"x">>>>, 2, 1, 1) }

ListsTried == UNION {[1..k -> PullRequestsTried] : k \in 0..MaxListLen}

\* String.prototype.toLowerCase
LowerChar(ch) ==
    CASE ch = "A" -> "a" [] ch = "B" -> "b" [] ch = "X" -> "x" [] ch = "Y" -> "y"
      [] OTHER -> ch

toLowerCase(str) == [i \in 1..Len(str) |-> LowerChar(str[i])]

\* a >= b for numbers: false when either is NaN.
GreaterOrEqual(a, b) == a.v # <<>> /\ b.v # <<>> /\ a.v[1] >= b.v[1]

\* Mutant of filterPullRequests: the author is compared with ===, case and all.
filterPullRequests_CaseSensitive(prs, options) ==
    LET byAuthor ==
            IF options.author # <<>> /\ options.author[1] # <<>>
            THEN SelectSeq(prs, LAMBDA pr : pr.user.login = options.author[1])
            ELSE prs
        byLabel ==
            IF options.label # <<>> /\ options.label[1] # <<>>
            THEN SelectSeq(byAuthor, LAMBDA pr :
                     \E i \in 1..Len(pr.labels) :
                         toLowerCase(pr.labels[i].name) = toLowerCase(options.label[1]))
            ELSE byAuthor
    IN  IF options.minComments # <<>>
        THEN SelectSeq(byLabel, LAMBDA pr :
                 GreaterOrEqual(Num(pr.comments + pr.review_comments),
                                options.minComments[1]))
        ELSE byLabel

\* Formatter.filterPullRequests
filterPullRequests(prs, options) ==
    LET byAuthor ==
            IF options.author # <<>> /\ options.author[1] # <<>>
            THEN SelectSeq(prs, LAMBDA pr :
                     toLowerCase(pr.user.login) = toLowerCase(options.author[1]))
            ELSE prs
        byLabel ==
            IF options.label # <<>> /\ options.label[1] # <<>>
            THEN SelectSeq(byAuthor, LAMBDA pr :
                     \E i \in 1..Len(pr.labels) :
                         toLowerCase(pr.labels[i].name) = toLowerCase(options.label[1]))
            ELSE byAuthor
    IN  IF options.minComments # <<>>
        THEN SelectSeq(byLabel, LAMBDA pr :
                 GreaterOrEqual(Num(pr.comments + pr.review_comments),
                                options.minComments[1]))
        ELSE byLabel

\* The criteria tried: absent, empty and given, in both cases of letter.
FilterOptionsTried ==
    [author : {<<>>, <<<<>>>>, <<<<"a">>>>, <<<<"B">>>>},
     label : {<<>>, <<<<"x">>>>, <<<<"Y">>>>},
     minComments : {<<>>, <<Num(0)>>, <<Num(2)>>, <<NaN>>}]

OpFilter(prs, options) ==
    /\ ret.op = "none"
    /\ ret' = Returned("filterPullRequests", <<prs, options>>,
                       Obj(filterPullRequests(prs, options)))
    /\ UNCHANGED <<now, ticks, cache, call, hist, storeLog, written, svc, cli>>

\* String.prototype.localeCompare on the letters tried: -1, 0 or 1.
CharRank(ch) == CASE ch = "a" -> 1 [] ch = "b" -> 2 [] ch = "z" -> 3 [] OTHER -> 0

RECURSIVE localeCompare(_, _)
localeCompare(a, b) ==
    IF a = <<>> /\ b = <<>> THEN 0
    ELSE IF a = <<>> THEN -1
    ELSE IF b = <<>> THEN 1
    ELSE IF CharRank(a[1]) < CharRank(b[1]) THEN -1
    ELSE IF CharRank(a[1]) > CharRank(b[1]) THEN 1
    ELSE localeCompare(Tail(a), Tail(b))

\* Mutant of Comparator: the direction is not applied.
Comparator_IgnoresDirection(a, b, options) ==
    CASE options.field = StrCreated -> a.created_at - b.created_at
      [] options.field = StrUpdated -> a.updated_at - b.updated_at
      [] options.field = StrComments ->
             a.comments + a.review_comments - (b.comments + b.review_comments)
      [] options.field = StrTitle -> localeCompare(a.title, b.title)
      [] OTHER -> 0

\* The comparator given to sort (lines 186-205).
Comparator(a, b, options) ==
    LET compareValue ==
            CASE options.field = StrCreated -> a.created_at - b.created_at
              [] options.field = StrUpdated -> a.updated_at - b.updated_at
              [] options.field = StrComments ->
                     a.comments + a.review_comments - (b.comments + b.review_comments)
              [] options.field = StrTitle -> localeCompare(a.title, b.title)
              [] OTHER -> 0
    IN  IF options.direction = StrAsc THEN compareValue ELSE 0 - compareValue

\* Array.prototype.sort, which is stable: each item goes behind the items
\* already placed that do not compare greater than it.
RECURSIVE StableSort(_, _)
StableSort(items, options) ==
    IF items = <<>> THEN <<>>
    ELSE LET front == StableSort(SubSeq(items, 1, Len(items) - 1), options)
             x == items[Len(items)]
             before == {i \in 0..Len(front) :
                          \A j \in (i + 1)..Len(front) : Comparator(front[j], x, options) > 0}
             at == CHOOSE i \in before : \A j \in before : i <= j
         IN  SubSeq(front, 1, at) \o <<x>> \o SubSeq(front, at + 1, Len(front))

\* Formatter.sortPullRequests
sortPullRequests(prs, options) == StableSort(prs, options)

SortOptionsTried ==
    [field : {StrCreated, StrUpdated, StrComments, StrTitle},
     direction : {StrAsc, StrDesc}]

OpSort(prs, options) ==
    /\ ret.op = "none"
    /\ ret' = Returned("sortPullRequests", <<prs, options>>,
                       Obj(sortPullRequests(prs, options)))
    /\ UNCHANGED <<now, ticks, cache, call, hist, storeLog, written, svc, cli>>

\* JSON.  A text is the sequence of its tokens (white space, which
\* JSON.stringify(prs, null, 2) adds and JSON.parse skips, is left out): a
\* punctuation mark, an object key, or a number, string or null.
Punct(mark) == [t |-> "punct", v |-> mark]
IsPunct(token, mark) == token.t = "punct" /\ token.v = mark
Key(name) == [t |-> "key", v |-> name]
Text(line) == [t |-> "text", v |-> line]
JArray(items) == [t |-> "array", v |-> items]
JObject(members) == [t |-> "jsobject", v |-> members]
Member(name, value) == [k |-> name, v |-> value]

\* The value of a PullRequest as JSON.stringify and JSON.parse see it.
ValueOfPR(pr) ==
    JObject(<<Member("number", Num(pr.number)),
              Member("title", Str(pr.title)),
              Member("user", JObject(<<Member("login", Str(pr.user.login))>>)),
              Member("created_at", Num(pr.created_at)),
              Member("updated_at", Num(pr.updated_at)),
              Member("labels",
                     JArray([i \in 1..Len(pr.labels) |->
                               JObject(<<Member("name", Str(pr.labels[i].name)),
                                         Member("description",
                                                pr.labels[i].description)>>)])),
              Member("comments", Num(pr.comments)),
              Member("review_comments", Num(pr.review_comments))>>)

ValueOfList(prs) == JArray([i \in 1..Len(prs) |-> ValueOfPR(prs[i])])

RECURSIVE Separated(_)
Separated(texts) ==
    IF texts = <<>> THEN <<>>
    ELSE IF Len(texts) = 1 THEN texts[1]
    ELSE texts[1] \o <<Punct(",")>> \o Separated(Tail(texts))

\* JSON.stringify: a member whose value is undefined is left out.
RECURSIVE Stringify(_)
Stringify(value) ==
    CASE value.t = "array" ->
             <<Punct("[")>>
                 \o Separated([i \in 1..Len(value.v) |-> Stringify(value.v[i])])
                 \o <<Punct("]")>>
      [] value.t = "jsobject" ->
             LET kept == SelectSeq(value.v, LAMBDA m : m.v.t # "undefined")
             IN  <<Punct("{")>>
                     \o Separated([i \in 1..Len(kept) |->
                            <<Key(kept[i].k), Punct(":")>> \o Stringify(kept[i].v)])
                     \o <<Punct("}")>>
      [] OTHER -> <<value>>

\* JSON.parse: the value read from position i on and the position after it,
\* or a SyntaxError.
SyntaxError == [ok |-> FALSE, value |-> Undefined, next |-> 0]

RECURSIVE ParseValue(_, _)
RECURSIVE ParseElements(_, _, _)
RECURSIVE ParseMembers(_, _, _)
ParseValue(text, i) ==
    IF i > Len(text) THEN SyntaxError
    ELSE IF text[i].t \in {"number", "string", "null"}
    THEN [ok |-> TRUE, value |-> text[i], next |-> i + 1]
    ELSE IF IsPunct(text[i], "[")
    THEN IF i < Len(text) /\ IsPunct(text[i + 1], "]")
         THEN [ok |-> TRUE, value |-> JArray(<<>>), next |-> i + 2]
         ELSE ParseElements(text, i + 1, <<>>)
    ELSE IF IsPunct(text[i], "{")
    THEN IF i < Len(text) /\ IsPunct(text[i + 1], "}")
         THEN [ok |-> TRUE, value |-> JObject(<<>>), next |-> i + 2]
         ELSE ParseMembers(text, i + 1, <<>>)
    ELSE SyntaxError

ParseElements(text, i, read) ==
    LET item == ParseValue(text, i)
    IN  IF ~item.ok \/ item.next > Len(text) THEN SyntaxError
        ELSE IF IsPunct(text[item.next], ",")
        THEN ParseElements(text, item.next + 1, Append(read, item.value))
        ELSE IF IsPunct(text[item.next], "]")
        THEN [ok |-> TRUE, value |-> JArray(Append(read, item.value)),
              next |-> item.next + 1]
        ELSE SyntaxError

ParseMembers(text, i, read) ==
    IF i + 1 > Len(text) \/ text[i].t # "key" \/ ~IsPunct(text[i + 1], ":")
    THEN SyntaxError
    ELSE LET item == ParseValue(text, i + 2)
         IN  IF ~item.ok \/ item.next > Len(text) THEN SyntaxError
             ELSE IF IsPunct(text[item.next], ",")
             THEN ParseMembers(text, item.next + 1,
                               Append(read, Member(text[i].v, item.value)))
             ELSE IF IsPunct(text[item.next], "}")
             THEN [ok |-> TRUE,
                   value |-> JObject(Append(read, Member(text[i].v, item.value))),
                   next |-> item.next + 1]
             ELSE SyntaxError

JSONParse(text) ==
    LET read == ParseValue(text, 1)
    IN  IF read.ok /\ read.next = Len(text) + 1 THEN read ELSE SyntaxError

\* formatCompact and formatDetailed: a heading and a block per pull request.
FormatLines(prs, format) ==
    <<Text(format)>> \o [i \in 1..Len(prs) |-> Text(<<prs[i].number, prs[i].title>>)]

\* Mutant of formatPullRequests: no case for 'json', which falls through to
\* the default.
formatPullRequests_JsonFallsThrough(prs, format) ==
    IF Len(prs) = 0 THEN <<Text("No pull requests found.")>>
    ELSE IF format = StrDetailed THEN FormatLines(prs, "detailed")
    ELSE FormatLines(prs, "compact")

\* Formatter.formatPullRequests
formatPullRequests(prs, format) ==
    IF Len(prs) = 0 THEN <<Text("No pull requests found.")>>
    ELSE IF format = StrJson THEN Stringify(ValueOfList(prs))
    ELSE IF format = StrDetailed THEN FormatLines(prs, "detailed")
    ELSE FormatLines(prs, "compact")

OpFormat(prs, format) ==
    /\ ret.op = "none"
    /\ ret' = Returned("formatPullRequests", <<prs, format>>,
                       Str(formatPullRequests(prs, format)))
    /\ UNCHANGED <<now, ticks, cache, call, hist, storeLog, written, svc, cli>>

NextFormatter ==
    \/ \E prs \in ListsTried, options \in FilterOptionsTried : OpFilter(prs, options)
    \/ \E prs \in ListsTried, options \in SortOptionsTried : OpSort(prs, options)
    \/ \E prs \in ListsTried, format \in {StrCompact, StrDetailed, StrJson} :
          OpFormat(prs, format)

SpecFormatter == Init /\ [][NextFormatter]_vars

(***************************************************************************)
(* The query stage on a fetched list.  fetchPullRequests returns the object *)
(* it stored (or the one it found stored), so the caller, the cache entry   *)
(* and every invocation served from that entry hold the same array; what a  *)
(* function does to the array it is passed shows in all of them.            *)
(***************************************************************************)
\* Mutant of Spread: `const sorted = prs`, the same array under another name.
Spread_SameArray(arrays, ref) ==
    [arrays |-> [r \in DOMAIN arrays \cup {"copy"} |->
                   IF r = "copy" THEN arrays[ref] ELSE arrays[r]],
     ref |-> ref]

\* [...prs]: a new array with the items of the array `ref`.
Spread(arrays, ref) ==
    [arrays |-> [r \in DOMAIN arrays \cup {"copy"} |->
                   IF r = "copy" THEN arrays[ref] ELSE arrays[r]],
     ref |-> "copy"]

\* filterPullRequests: `filtered` starts as a copy and is replaced by the
\* arrays that filter() returns.  `passed` is the argument after the call.
FilterCall(prs, options) ==
    LET filtered == Spread([argument |-> prs], "argument")
    IN  [returned |-> filterPullRequests(filtered.arrays[filtered.ref], options),
         passed |-> filtered.arrays["argument"]]

\* sortPullRequests: sort() reorders the array `sorted` in place.
SortCall(prs, options) ==
    LET sorted == Spread([argument |-> prs], "argument")
        arrays == [sorted.arrays EXCEPT
                      ![sorted.ref] = sortPullRequests(@, options)]
    IN  [returned |-> arrays[sorted.ref], passed |-> arrays["argument"]]

\* The invocation that built the result object invocation c returned.
Origin(c) == IF hist[c].storedAt # <<>> THEN c ELSE hist[c].servedBy[1]

\* The invocation that built the result object the i-th entry holds.
EntryOrigin(i) ==
    LET stores == { j \in 1..Len(storeLog) : hist[storeLog[j]].key = cache[i].key }
    IN  storeLog[CHOOSE j \in stores : \A k \in stores : k <= j]

\* A function of the query stage called on the list invocation c returned.
ApplyToFetched(c, name, options, effect) ==
    /\ call[c].pc = "done"
    /\ call' = [d \in Calls |->
                  IF call[d].pc = "done" /\ Origin(d) = Origin(c)
                  THEN [call[d] EXCEPT !.result[1].prs = effect.passed]
                  ELSE call[d]]
    /\ cache' = [i \in 1..Len(cache) |->
                   IF EntryOrigin(i) = Origin(c)
                   THEN [cache[i] EXCEPT !.data.v[1].prs = effect.passed]
                   ELSE cache[i]]
    /\ ret' = [op |-> name, key |-> <<c, options>>, val |-> Obj(effect.returned),
               at |-> now, found |-> "none"]
    /\ UNCHANGED <<now, ticks, hist, storeLog, written, svc, cli>>

ApplyFilter(c, options) ==
    ApplyToFetched(c, "filterPullRequests", options,
                   FilterCall(call[c].result[1].prs, options))

ApplySort(c, options) ==
    ApplyToFetched(c, "sortPullRequests", options,
                   SortCall(call[c].result[1].prs, options))

\* One page of at most MaxPerPage items per fetch.
OptionsTriedQuery ==
    [owner : {<<"o">>},
     repo : {<<"r">>},
     state : {<<StrOpen>>},
     sort : {<<>>},
     direction : {<<>>},
     perPage : {<<Num(MaxPerPage)>>},
     maxPages : {<<Num(1)>>}]

FilterOptionsTriedQuery ==
    { [author |-> <<<<"a">>>>, label |-> <<>>, minComments |-> <<Num(1)>>] }

SortOptionsTriedQuery ==
    [field : {StrCreated, StrComments}, direction : {StrAsc, StrDesc}]

NextQuery ==
    \/ \E c \in Calls, o \in OptionsTriedQuery : StartFetch(c, o)
    \/ \E c \in Calls : PageResponse(c, MaxPerPage, {<<>>})
    \/ \E d \in {1, defaultTTL} : Tick(d)
    \/ \E c \in Calls, options \in FilterOptionsTriedQuery : ApplyFilter(c, options)
    \/ \E c \in Calls, options \in SortOptionsTriedQuery : ApplySort(c, options)

SpecQuery == Init /\ [][NextQuery]_vars

(***************************************************************************)
(* The cache key of a query: two queries, as the command line builds them   *)
(* (parseRepo, then fetchPullRequests), and what the second is served       *)
(* after the first has stored a result.                                     *)
(***************************************************************************)
StrAll == <<"a","l","l">>
StrPopularity == <<"p","o","p","u","l","a","r","i","t","y">>
StrLongRunning == <<"l","o","n","g","-","r","u","n","n","i","n","g">>

\* The repository arguments tried: owners and repositories with the
\* characters the key is built with, and one that parseRepo rejects.
RepositoryArgumentsTried ==
    { <<"o","/","r">>,
      <<"o","/","r",":","p","r","s","-","o","p","e","n">>,
      <<"o",":","p","r","s","-","o","p","e","n","/","r">>,
      <<"o","/","r","-">>,
      <<"o","-","/","r">>,
      <<"o","/","r","/","x">> }

\* FetchPRsOptions without the page parameters.
QueriesTried ==
    [repository : RepositoryArgumentsTried,
     state : {<<>>, <<StrOpen>>, <<StrClosed>>, <<StrAll>>},
     sort : {<<>>, <<StrCreated>>, <<StrUpdated>>, <<StrPopularity>>, <<StrLongRunning>>},
     direction : {<<>>, <<StrAsc>>, <<StrDesc>>}]

\* const { owner, repo } = parsed; fetchPullRequests({ owner, repo, ... })
OptionsOfQuery(q) ==
    LET parsed == parseRepo(Str(q.repository)).v[1]
    IN  [owner |-> parsed.owner.v, repo |-> parsed.repo.v, state |-> q.state,
         sort |-> q.sort, direction |-> q.direction,
         perPage |-> <<>>, maxPages |-> <<>>]

\* The first query stores a result under its key; the second reads the cache
\* under its own.
OpFetchCacheKeys(q1, q2) ==
    /\ ret.op = "none"
    /\ parseRepo(Str(q1.repository)) # Null
    /\ parseRepo(Str(q2.repository)) # Null
    /\ LET key1 == FetchCacheKey(Destructure(OptionsOfQuery(q1)))
           key2 == FetchCacheKey(Destructure(OptionsOfQuery(q2)))
           stored == CacheSet(cache, key1, Str(<<"v">>), <<>>, now)
       IN  ret' = Returned("fetchCacheKeys", <<q1, q2>>,
                           Obj([key1 |-> key1, key2 |-> key2,
                                cached |-> CacheGet(stored, key2, now)]))
    /\ UNCHANGED <<now, ticks, cache, call, hist, storeLog, written, svc, cli>>

NextKeys ==
    /\ ret.op = "none"
    /\ \E q1 \in QueriesTried, q2 \in QueriesTried : OpFetchCacheKeys(q1, q2)

SpecKeys == Init /\ [][NextKeys]_vars

(***************************************************************************)
(* What the properties below read from the history.                         *)
(***************************************************************************)
Started(c) == hist[c].options # <<>>
MaxPagesOf(c) == hist[c].options[1].maxPages[1]
PerPageOf(c) == hist[c].options[1].perPage[1]
\* The invocation did not return a cached value: it entered the page loop.
MissPath(c) ==
    Started(c) /\ (call[c].pc \in {"awaiting", "failed"} \/ hist[c].storedAt # <<>>)
\* The invocation entered the page loop and returned a result.
MissDone(c) == call[c].pc = "done" /\ hist[c].storedAt # <<>>
\* The upstream's signal that a next page exists: a Link header with rel="next".
SignalsNext(resp) == resp.link = <<LinkWithNext>>
PagesSent(c) == [i \in 1..Len(hist[c].sent) |-> hist[c].sent[i].page]
UpTo(n) == [i \in 1..n |-> i]
Summary(c) == call[c].result[1].pagination
LastRecv(c) == hist[c].recv[Len(hist[c].recv)]

(***************************************************************************)
(* C2.  On a cache miss with maxPages >= 1, while every page received is    *)
(* non-empty and signals a next page, the requests are for pages 1, 2, ...  *)
(* and never for page maxPages + 1; the invocation returns exactly when     *)
(* maxPages pages have been received, and then hasNextPage is true.         *)
(***************************************************************************)
C2_Case(c) ==
    /\ MissPath(c)
    /\ MaxPagesOf(c).v # <<>>
    /\ MaxPagesOf(c).v[1] >= 1
    /\ hist[c].failure = <<>>
    /\ \A i \in 1..Len(hist[c].recv) :
          Len(hist[c].recv[i].data) > 0 /\ SignalsNext(hist[c].recv[i])

C2_StopsAtMaxPages ==
    \A c \in Calls :
        C2_Case(c) =>
            /\ PagesSent(c) = UpTo(Len(hist[c].sent))
            /\ Len(hist[c].sent) <= MaxPagesOf(c).v[1]
            /\ (call[c].pc = "done") = (Len(hist[c].recv) = MaxPagesOf(c).v[1])
            /\ call[c].pc = "done" =>
                  /\ Len(hist[c].sent) = MaxPagesOf(c).v[1]
                  /\ Summary(c).hasNextPage

C2_Witness ==
    \E c \in Calls :
        /\ C2_Case(c)
        /\ call[c].pc = "done"
        /\ MaxPagesOf(c).v[1] >= 2
        /\ Len(hist[c].sent) = MaxPagesOf(c).v[1]

(***************************************************************************)
(* C3.  On a cache miss, a page with zero items is the last page received:  *)
(* no request follows it, the invocation returns, and hasNextPage is false, *)
(* whatever maxPages and the Link header are.                               *)
(***************************************************************************)
C3_EmptyPageEnds ==
    \A c \in Calls :
        \A i \in 1..Len(hist[c].recv) :
            Len(hist[c].recv[i].data) = 0 =>
                /\ i = Len(hist[c].recv)
                /\ Len(hist[c].sent) = i
                /\ call[c].pc = "done"
                /\ ~Summary(c).hasNextPage

C3_Witness ==
    \E c \in Calls :
        /\ Len(hist[c].recv) = 1
        /\ Len(hist[c].recv[1].data) = 0
        /\ SignalsNext(hist[c].recv[1])
        /\ MaxPagesOf(c).v # <<>>
        /\ MaxPagesOf(c).v[1] >= 2
        /\ call[c].pc = "done"

(***************************************************************************)
(* C4.  For every cache-miss invocation that returns, hasNextPage is true   *)
(* if and only if the loop stopped because the page counter exceeded        *)
(* maxPages while the last response received signalled a next page; it is   *)
(* false when no response was received at all.                              *)
(***************************************************************************)
C4_HasNextPageIff ==
    \A c \in Calls :
        MissDone(c) =>
            (Summary(c).hasNextPage
               = (/\ Len(hist[c].recv) >= 1
                  /\ Len(LastRecv(c).data) > 0
                  /\ SignalsNext(LastRecv(c))
                  /\ ~LessOrEqual(Len(hist[c].recv) + 1, MaxPagesOf(c))))

(***************************************************************************)
(* C5.  For every cache-miss invocation that returns after sending at least *)
(* one request, the `page` of the summary is the number of the last page    *)
(* requested.                                                               *)
(***************************************************************************)
C5_PageIsLastRequested ==
    \A c \in Calls :
        (MissDone(c) /\ Len(hist[c].sent) >= 1) =>
            Summary(c).page = hist[c].sent[Len(hist[c].sent)].page

(***************************************************************************)
(* C6.  When the request for page k throws, the invocation ends with an     *)
(* error and returns nothing; the requests it has sent are those for pages  *)
(* 1..k only (pages 1..k-1 were received), none is sent afterwards; and the *)
(* failing step leaves the cache as it was.                                 *)
(***************************************************************************)
C6_Aborted(c) ==
    /\ call[c].pc = "failed"
    /\ call[c].result = <<>>
    /\ call[c].error # <<>>
    /\ PagesSent(c) = UpTo(Len(hist[c].recv) + 1)

C6_FailedPageAborts ==
    /\ [](\A c \in Calls : hist[c].failure # <<>> => C6_Aborted(c))
    /\ [][\A c \in Calls :
            (hist[c].failure = <<>> /\ hist'[c].failure # <<>>) => cache' = cache]_vars
    /\ [][\A c \in Calls :
            hist[c].failure # <<>> => (call'[c] = call[c] /\ hist'[c] = hist[c])]_vars

C6_Witness ==
    \E c \in Calls :
        /\ hist[c].failure # <<>>
        /\ Len(hist[c].recv) = 1
        /\ Len(hist[c].recv[1].data) > 0
        /\ cache # <<>>

(***************************************************************************)
(* C7.  Every failed page request surfaces as one of five kinds, by its     *)
(* status: 404 NotFound, 401 AuthFailure, 403 with 'rate limit' in the      *)
(* message RateLimited, 403 without it Forbidden, anything else (another    *)
(* status, no numeric status) Generic wrapping the underlying message; the  *)
(* messages of two different kinds differ.                                  *)
(***************************************************************************)
HasStatus(e, n) ==
    e.status # <<>> /\ e.status[1].t = "number" /\ e.status[1].v = <<n>>

ErrorKind(e) ==
    CASE HasStatus(e, 404) -> "NotFound"
      [] HasStatus(e, 401) -> "AuthFailure"
      [] HasStatus(e, 403) /\ Includes(e.message, StrRateLimit) -> "RateLimited"
      [] HasStatus(e, 403) /\ ~Includes(e.message, StrRateLimit) -> "Forbidden"
      [] OTHER -> "Generic"

KindMessage(kind, e, owner, repo) ==
    CASE kind = "NotFound" -> MsgRepository \o owner \o <<"/">> \o repo \o MsgNotFoundTail
      [] kind = "AuthFailure" -> MsgAuthFailed
      [] kind = "RateLimited" -> MsgRateLimited
      [] kind = "Forbidden" -> MsgForbidden
      [] OTHER -> MsgFailedPrefix \o (IF e.isError THEN e.message ELSE e.asString)

C7_FiveErrorKinds ==
    \A c \in Calls :
        hist[c].failure # <<>> =>
            LET e == hist[c].failure[1]
                o == hist[c].options[1]
            IN  /\ call[c].error = <<KindMessage(ErrorKind(e), e, o.owner, o.repo)>>
                /\ \A e2 \in UpstreamErrors :
                      ErrorKind(e2) # ErrorKind(e) =>
                          call[c].error # <<ClassifyError(e2, o.owner, o.repo)>>

C7_Witness ==
    \E c \in Calls :
        /\ hist[c].failure # <<>>
        /\ HasStatus(hist[c].failure[1], 403)
        /\ Includes(hist[c].failure[1].message, StrRateLimit)
        /\ call[c].error = <<MsgRateLimited>>

(***************************************************************************)
(* C1.  An invocation that starts when an invocation with the same (owner,  *)
(* repo, state, sort, direction) has stored its result at most five minutes *)
(* before, with no clear in between, sends no page request and returns the  *)
(* stored result unchanged.                                                 *)
(***************************************************************************)
C1_SecondCallServedFromCache ==
    \A c \in Calls :
        hist[c].servedBy # <<>> =>
            /\ call[c].pc = "done"
            /\ hist[c].sent = <<>>
            /\ hist[c].recv = <<>>
            /\ call[c].result = call[hist[c].servedBy[1]].result

C1_Witness ==
    \E c \in Calls :
        /\ hist[c].servedBy # <<>>
        /\ now - hist[hist[c].servedBy[1]].storedAt[1] = 5 * 60 * 1000
        /\ call[c].pc = "done"
        /\ Len(call[c].result[1].prs) > 0

(***************************************************************************)
(* C8.  Invocations with the same (owner, repo, state, sort, direction)     *)
(* compute the same cache key whatever their perPage and maxPages; one that *)
(* differs from the storing invocation only in perPage or maxPages sends no *)
(* request and returns the stored result, with the storing invocation's     *)
(* perPage in its summary.                                                  *)
(***************************************************************************)
C8_KeyIgnoresPageParameters ==
    /\ \A c, d \in Calls :
          (Started(c) /\ Started(d)
             /\ Query(hist[c].options[1]) = Query(hist[d].options[1]))
          => hist[c].key = hist[d].key
    /\ \A c \in Calls :
          hist[c].servedBy # <<>> =>
              LET d == hist[c].servedBy[1]
              IN  (PerPageOf(c) # PerPageOf(d) \/ MaxPagesOf(c) # MaxPagesOf(d)) =>
                      /\ hist[c].sent = <<>>
                      /\ call[c].pc = "done"
                      /\ call[c].result = call[d].result
                      /\ Summary(c).perPage = PerPageOf(d)

C8_Witness ==
    \E c \in Calls :
        /\ hist[c].servedBy # <<>>
        /\ PerPageOf(c) # PerPageOf(hist[c].servedBy[1])
        /\ MaxPagesOf(c) # MaxPagesOf(hist[c].servedBy[1])
        /\ call[c].pc = "done"
        /\ Summary(c).perPage # PerPageOf(c)

(***************************************************************************)
(* C9.  Two invocations under the same key that were both waiting for a     *)
(* page at the same time each send their own requests and return the        *)
(* concatenation of their own pages; afterwards the cache holds exactly one *)
(* entry for the key, the result of the one that stored last.               *)
(***************************************************************************)
RECURSIVE OwnItems(_)
\* The items of the pages in `pages`, in order, with the fields the program keeps.
OwnItems(pages) ==
    IF pages = <<>> THEN <<>>
    ELSE [i \in 1..Len(Head(pages).data) |->
             [id |-> Head(pages).data[i].id,
              number |-> Head(pages).data[i].number,
              title |-> Head(pages).data[i].title,
              user |-> [login |-> Head(pages).data[i].user.login],
              created_at |-> Head(pages).data[i].created_at,
              updated_at |-> Head(pages).data[i].updated_at,
              labels |-> <<>>,
              comments |-> Head(pages).data[i].comments,
              review_comments |-> Head(pages).data[i].review_comments]]
         \o OwnItems(Tail(pages))

C9_Case(c, d) ==
    /\ c # d
    /\ hist[c].overlapped
    /\ hist[d].overlapped
    /\ hist[c].key = hist[d].key
    /\ MissDone(c)
    /\ MissDone(d)

C9_BothFetchLastWriterWins ==
    \A c, d \in Calls :
        C9_Case(c, d) =>
            /\ Len(hist[c].sent) >= 1
            /\ call[c].result[1].prs = OwnItems(hist[c].recv)
            /\ storeLog # <<>> =>
                  LET last == storeLog[Len(storeLog)]
                      held == { i \in 1..Len(cache) : cache[i].key = hist[c].key }
                  IN  /\ Cardinality(held) = 1
                      /\ \A i \in held : cache[i].data = Obj(call[last].result[1])

C9_Witness ==
    \E c, d \in Calls :
        /\ C9_Case(c, d)
        /\ storeLog = <<c, d>>
        /\ call[c].result # call[d].result
        /\ Len(call[c].result[1].prs) > 0

(***************************************************************************)
(* C10.  A get(k) made while the last set(k, v) or set(k, v, ttl) is not    *)
(* older than its time-to-live (five minutes when none was given), with no  *)
(* delete(k) or clear since that set, returns v, whatever operations came   *)
(* before on k or on other keys.                                            *)
(***************************************************************************)
C10_Case ==
    /\ ret.op = "get"
    /\ written[ret.key] # <<>>
    /\ LET w == written[ret.key][1]
       IN  ret.at - w.at <= (IF w.ttl = <<>> THEN 5 * 60 * 1000 ELSE w.ttl[1])

C10_RoundTrip == C10_Case => ret.val = written[ret.key][1].data

C10_Witness ==
    /\ C10_Case
    /\ ret.val = Num(0)
    /\ written[ret.key][1].ttl = <<1>>
    /\ ret.at - written[ret.key][1].at = 1
    /\ Len(cache) = 2

(***************************************************************************)
(* C11.  Cache expiry.  A get(k) returns the value of the last set(k, v,    *)
(* ttl), made at time t, exactly when now - t <= ttl (five minutes when no  *)
(* ttl was given); when now - t > ttl it returns null and the Map no longer *)
(* holds an entry for k, so that a getStats made afterwards does not list   *)
(* k.  A key never set (or deleted, or cleared, since its last set) gives   *)
(* null.                                                                    *)
(***************************************************************************)
KeysOf(m) == {m[i].key : i \in 1..Len(m)}

AgeAtCall == ret.at - written[ret.key][1].at

TtlWritten ==
    IF written[ret.key][1].ttl = <<>> THEN 5 * 60 * 1000
    ELSE written[ret.key][1].ttl[1]

C11_GetByAge ==
    ret.op = "get" =>
        IF written[ret.key] = <<>>
        THEN ret.val = Null /\ ret.key \notin KeysOf(cache)
        ELSE IF AgeAtCall <= TtlWritten
        THEN ret.val = written[ret.key][1].data /\ ret.key \in KeysOf(cache)
        ELSE ret.val = Null /\ ret.key \notin KeysOf(cache)

C11_StatsAfterEviction ==
    (ret.op = "get" /\ ret.found = "stale" /\ ret'.op = "getStats")
        => \A i \in 1..ret'.val.v[1].size : ret'.val.v[1].keys[i] # ret.key

C11_Expiry == [](C11_GetByAge) /\ [][C11_StatsAfterEviction]_vars

C11_Witness ==
    /\ ret.op = "get"
    /\ ret.found = "stale"
    /\ ret.val = Null
    /\ written[ret.key] # <<>>
    /\ written[ret.key][1].data = Str(<<"v">>)
    /\ AgeAtCall = TtlWritten + 1
    /\ ret.key \notin KeysOf(cache)
    /\ Len(cache) = 1

(***************************************************************************)
(* C12.  has(k) returns true if and only if the Map holds an entry for k    *)
(* that is within its time-to-live, whatever value was stored under k (null *)
(* included); it returns false for a key without entry and for an expired   *)
(* one, and an expired entry is removed as get removes it.                  *)
(***************************************************************************)
C12_HasIffLiveEntry ==
    ret.op = "has" =>
        /\ ret.val = Bool(ret.found = "fresh")
        /\ ret.key \in KeysOf(cache) <=> ret.found = "fresh"

(***************************************************************************)
(* C13.  delete(k) returns true exactly when the Map held an entry for k    *)
(* when it was called, expired or not, and false otherwise; after it the    *)
(* Map has no entry for k, a get(k) or has(k) reports absence, and the      *)
(* entry of every other key is what it was.                                 *)
(***************************************************************************)
EntryOf(m, k) == {m[i] : i \in {j \in 1..Len(m) : m[j].key = k}}

C13_DeleteStep ==
    (ret'.op = "delete" /\ ret' # ret) =>
        /\ ret'.val = Bool(EntryOf(cache, ret'.key) # {})
        /\ EntryOf(cache', ret'.key) = {}
        /\ \A k \in KeysTried \ {ret'.key} : EntryOf(cache', k) = EntryOf(cache, k)
        /\ Len(cache') = Len(cache) - Cardinality(EntryOf(cache, ret'.key))

C13_ReadAfterDelete ==
    (ret.op = "delete" /\ ret'.key = ret.key) =>
        /\ ret'.op = "get" => ret'.val = Null
        /\ ret'.op = "has" => ret'.val = Bool(FALSE)

C13_Delete == [][C13_DeleteStep /\ C13_ReadAfterDelete]_vars

C13_Witness ==
    /\ ret.op = "delete"
    /\ ret.found = "stale"
    /\ ret.val = Bool(TRUE)
    /\ Len(cache) = 1
    /\ cache[1].key # ret.key

(***************************************************************************)
(* C14.  clear() leaves a Map of size 0 in which get(k) is null for every   *)
(* key k, whatever the Map held; and a fetchPullRequests call that finds    *)
(* the Map as clear() left it sends a request to the upstream.              *)
(***************************************************************************)
C14_ClearStep ==
    Clear =>
        /\ Len(cache') = 0
        /\ \A c \in Calls : hist[c].key # <<>> =>
               CacheGet(cache', hist[c].key, now') = Null

C14_FetchStep ==
    \A c \in Calls :
        (cache = <<>> /\ call[c].pc = "idle" /\ call'[c].pc # "idle")
            => Len(hist'[c].sent) = 1

C14_ClearThenRefetch == [][C14_ClearStep /\ C14_FetchStep]_vars

(***************************************************************************)
(* C15.  getStats leaves the Map as it is and returns the number and the    *)
(* keys, in insertion order, of all entries the Map holds, expired ones     *)
(* included: an entry leaves the Map only by a get or has of its own key, a *)
(* delete of its key, or a clear; a read of another key never removes it.   *)
(***************************************************************************)
KeyList(m) == [i \in 1..Len(m) |-> m[i].key]

C15_StatsOfMap ==
    ret.op = "getStats" =>
        ret.val = Obj([size |-> Len(cache), keys |-> KeyList(cache)])

C15_StatsStep == (ret'.op = "getStats" /\ ret' # ret) => cache' = cache

C15_Removal ==
    \A k \in KeysOf(cache) \ KeysOf(cache') :
        \/ ret'.op \in {"get", "has", "delete"} /\ ret'.key = k
        \/ ret'.op = "clear"

C15_InsertionOrder ==
    /\ \A k \in KeysOf(cache') \ KeysOf(cache) :
           cache'[Len(cache')].key = k
    /\ \A k1, k2 \in KeysOf(cache) \cap KeysOf(cache') :
           MapIndex(cache, k1) < MapIndex(cache, k2)
               => MapIndex(cache', k1) < MapIndex(cache', k2)

C15_GetStats ==
    [](C15_StatsOfMap) /\ [][C15_StatsStep /\ C15_Removal /\ C15_InsertionOrder]_vars

C15_Witness ==
    /\ ret.op = "getStats"
    /\ ret.at = now
    /\ ret.val.v[1].size = 2
    /\ \A i \in 1..2 : now - cache[i].timestamp > cache[i].ttl

(***************************************************************************)
(* C16.  The Map never holds two entries with the same key.  After          *)
(* set(k, v, ttl) the one entry of k has the value, the time of that set    *)
(* and the ttl of that set (five minutes when none was given), whatever     *)
(* entry k had before; and the Map never holds more entries than there are  *)
(* keys that were set.                                                      *)
(***************************************************************************)
C16_OnePerKey ==
    \A i, j \in 1..Len(cache) : cache[i].key = cache[j].key => i = j

C16_SetReplaces ==
    ret.op = "set" =>
        EntryOf(cache, ret.key) =
            {[key |-> ret.key, data |-> written[ret.key][1].data,
              timestamp |-> ret.at, ttl |-> TtlWritten]}

C16_SizeBound ==
    Len(cache) <= Cardinality({k \in KeysTried : written[k] # <<>>})

C16_OneEntryPerKey == C16_OnePerKey /\ C16_SetReplaces /\ C16_SizeBound

C16_Witness ==
    /\ ret.op = "set"
    /\ ret.found = "stale"
    /\ Len(cache) = 2
    /\ cache[1].key = ret.key
    /\ cache[1].ttl = 1
    /\ now - cache[1].timestamp = 1

(***************************************************************************)
(* C17.  generateKey(owner, repo) is owner + "/" + repo, and                *)
(* generateKey(owner, repo, suffix) is owner + "/" + repo + ":" + suffix    *)
(* for every string given as suffix.                                        *)
(***************************************************************************)
C17_GenerateKey ==
    ret.op = "generateKey" =>
        LET owner == ret.key[1]
            repo == ret.key[2]
            suffix == ret.key[3]
        IN  ret.val = Str(IF suffix = <<>>
                          THEN owner \o <<"/">> \o repo
                          ELSE owner \o <<"/">> \o repo \o <<":">> \o suffix[1])

(***************************************************************************)
(* C20.  isValidRepoFormat accepts exactly the strings that have one '/'    *)
(* with at least one character on each side of it, and rejects every other  *)
(* string and every value that is not a string.  parseRepo returns          *)
(* {owner, repo} with owner + "/" + repo equal to its argument for exactly  *)
(* the accepted arguments, and null for the others.                         *)
(***************************************************************************)
OneSlashInside(x) ==
    /\ x.t = "string"
    /\ Cardinality({i \in 1..Len(x.v) : x.v[i] = "/"}) = 1
    /\ x.v[1] # "/"
    /\ x.v[Len(x.v)] # "/"

C20_RepoFormat ==
    /\ ret.op = "isValidRepoFormat" => ret.val = Bool(OneSlashInside(ret.key))
    /\ ret.op = "parseRepo" =>
           IF OneSlashInside(ret.key)
           THEN /\ ret.val.t = "object"
                /\ ret.val.v[1].owner.t = "string"
                /\ ret.val.v[1].repo.t = "string"
                /\ ret.val.v[1].owner.v \o <<"/">> \o ret.val.v[1].repo.v = ret.key.v
           ELSE ret.val = Null

C20_Witness ==
    /\ ret.op = "parseRepo"
    /\ ret.key = Str(<<"o", "r", "/", "r">>)
    /\ ret.val = Obj([owner |-> Str(<<"o", "r">>), repo |-> Str(<<"r">>)])

(***************************************************************************)
(* C18.  Constructing a GitHubService with an empty or white-space-only     *)
(* token throws 'GitHub token is required' and does nothing else: no client *)
(* is created, CacheService.getInstance is not called, the cache is not     *)
(* changed, and no service object comes to exist, so every service there is *)
(* to call verifyToken or fetchPullRequests on has a non-blank token.       *)
(***************************************************************************)
BlankToken(token) ==
    \/ token.t # "string"
    \/ \A i \in 1..Len(token.v) : token.v[i] \in {" ", "\t", "\n"}

C18_BlankThrows ==
    svc.last # <<>> =>
        (BlankToken(svc.last[1].token) <=> svc.last[1].thrown = <<MsgTokenRequired>>)

C18_OnlyGoodServices ==
    /\ svc.clients = Len(svc.services)
    /\ svc.instanceUses = Len(svc.services)
    /\ \A i \in 1..Len(svc.services) : ~BlankToken(Str(svc.services[i].auth))
    /\ svc.verify.on \in 0..Len(svc.services)

C18_FailedStep ==
    (svc'.last # svc.last /\ BlankToken(svc'.last[1].token)) =>
        /\ svc'.services = svc.services
        /\ svc'.clients = svc.clients
        /\ svc'.instanceUses = svc.instanceUses
        /\ cache' = cache

C18_BlankTokenRejected ==
    [](C18_BlankThrows /\ C18_OnlyGoodServices) /\ [][C18_FailedStep]_vars

C18_Witness ==
    /\ svc.last # <<>>
    /\ svc.last[1].token = Str(<<" ", " ">>)
    /\ svc.last[1].thrown = <<MsgTokenRequired>>
    /\ Len(svc.services) = 1
    /\ svc.services[1].auth = <<" ", "t">>
    /\ Len(cache) = 1

(***************************************************************************)
(* C19.  A verifyToken call sends one identity probe and never throws: it   *)
(* returns true when the probe succeeds and false when it fails, whatever   *)
(* the failure (bad credentials, rate limit, network), and no step of it    *)
(* changes the cache.                                                       *)
(***************************************************************************)
C19_OneProbeBoolean ==
    /\ svc.verify.pc = "awaiting" => svc.verify.sent = 1
    /\ svc.verify.pc = "done" =>
           /\ svc.verify.sent = 1
           /\ svc.verify.thrown = <<>>
           /\ svc.verify.result = <<Bool(svc.verify.outcome = "ok")>>

C19_CacheUntouched == svc'.verify # svc.verify => cache' = cache

C19_VerifyToken == [](C19_OneProbeBoolean) /\ [][C19_CacheUntouched]_vars

C19_Witness ==
    /\ svc.verify.pc = "done"
    /\ svc.verify.error = <<NetworkError>>
    /\ svc.verify.result = <<Bool(FALSE)>>
    /\ svc.verify.on = 2
    /\ Len(cache) = 1
    /\ now - cache[1].timestamp > cache[1].ttl

(***************************************************************************)
(* C21.  isValidTokenFormat accepts a string if and only if the string has  *)
(* at least 40 characters and starts with 'ghp_', starts with               *)
(* 'github_pat_', or has hexadecimal characters only: the string as given,  *)
(* white space before or after included, which is the string the service    *)
(* is then constructed with.                                                *)
(***************************************************************************)
C21_TokenFormat ==
    (ret.op = "isValidTokenFormat" /\ ret.key.t = "string") =>
        ret.val = Bool(/\ Len(ret.key.v) >= 40
                       /\ \/ StartsWith(ret.key.v, StrGhp)
                          \/ StartsWith(ret.key.v, StrGithubPat)
                          \/ IsHexString(ret.key.v))

(***************************************************************************)
(* C22.  A run of the fetch command, of interactive mode or of rate-limit   *)
(* whose repository argument fails isValidRepoFormat, or whose GITHUB_TOKEN *)
(* is missing or fails isValidTokenFormat, ends with exit code 1 without    *)
(* having made a network call; so does a run of fetch whose format, sort    *)
(* field or sort direction option is not one of the allowed values.         *)
(***************************************************************************)
C22_BadInput ==
    \/ /\ cli.cmd \in {"fetch", "interactive"}
       /\ ~isValidRepoFormat(cli.repository)
    \/ /\ cli.cmd \in {"fetch", "interactive", "rate-limit"}
       /\ (cli.token = Undefined \/ ~isValidTokenFormat(cli.token))
    \/ /\ cli.cmd = "fetch"
       /\ \/ cli.options[1].format.v \notin {StrCompact, StrDetailed, StrJson}
          \/ cli.options[1].sort.v \notin {StrCreated, StrUpdated, StrComments, StrTitle}
          \/ cli.options[1].direction.v \notin {StrAsc, StrDesc}

C22_ValidationBeforeNetwork ==
    C22_BadInput => cli.pc = "exited" /\ cli.exit = <<1>> /\ cli.network = <<>>

(***************************************************************************)
(* C23.  filterPullRequests returns, in their input order, exactly the      *)
(* items that meet every criterion given (an author or label left empty     *)
(* counts as not given): author login equal without regard to case, some    *)
(* label name equal without regard to case, comments + review_comments >=   *)
(* minComments.  Without criteria the result equals the input, and          *)
(* filtering the result again with the same criteria changes nothing.       *)
(***************************************************************************)
SameLetters(a, b) ==
    /\ Len(a) = Len(b)
    /\ \A i \in 1..Len(a) :
          \/ a[i] = b[i]
          \/ {a[i], b[i]} \in {{"a", "A"}, {"b", "B"}, {"x", "X"}, {"y", "Y"}}

Given(criterion) == criterion # <<>> /\ criterion[1] # <<>>

Meets(pr, options) ==
    /\ Given(options.author) => SameLetters(pr.user.login, options.author[1])
    /\ Given(options.label) =>
           \E i \in 1..Len(pr.labels) : SameLetters(pr.labels[i].name, options.label[1])
    /\ options.minComments # <<>> =>
           /\ options.minComments[1] # NaN
           /\ pr.comments + pr.review_comments >= options.minComments[1].v[1]

C23_Filter ==
    ret.op = "filterPullRequests" =>
        LET prs == ret.key[1]
            options == ret.key[2]
            out == ret.val.v[1]
        IN  /\ out = SelectSeq(prs, LAMBDA pr : Meets(pr, options))
            /\ (~Given(options.author) /\ ~Given(options.label)
                    /\ options.minComments = <<>>) => out = prs
            /\ filterPullRequests(out, options) = out

C23_Witness ==
    /\ ret.op = "filterPullRequests"
    /\ ret.key[2] = [author |-> <<<<"B">>>>, label |-> <<<<"x">>>>, minComments |-> <<Num(2)>>]
    /\ Len(ret.key[1]) = 3
    /\ ret.key[1][1].number = 4
    /\ ret.key[1][3].number = 4
    /\ Len(ret.val.v[1]) = 2

(***************************************************************************)
(* C24.  For every input list and sort field, sortPullRequests with         *)
(* direction 'desc' returns the reverse of what it returns with 'asc' on    *)
(* the same input, lists with equal sort keys included.                     *)
(***************************************************************************)
Reverse(seq) == [i \in 1..Len(seq) |-> seq[Len(seq) + 1 - i]]

SortKey(pr, field) ==
    CASE field = StrCreated -> pr.created_at
      [] field = StrUpdated -> pr.updated_at
      [] field = StrComments -> pr.comments + pr.review_comments
      [] OTHER -> pr.title

DistinctKeys(prs, field) ==
    \A i, j \in 1..Len(prs) : i # j => SortKey(prs[i], field) # SortKey(prs[j], field)

RECURSIVE Defined(_)
Defined(value) ==
    CASE value.t = "array" ->
             JArray([i \in 1..Len(value.v) |-> Defined(value.v[i])])
      [] value.t = "jsobject" ->
             LET kept == SelectSeq(value.v, LAMBDA m : m.v.t # "undefined")
             IN  JObject([i \in 1..Len(kept) |->
                            Member(kept[i].k, Defined(kept[i].v))])
      [] OTHER -> value

FormattedAsJson == ret.op = "formatPullRequests" /\ ret.key[2] = StrJson

\* C25 as stated: for every item list, the empty one included, the 'json'
\* output parses back to the list given, every field of every item present.
C25_JsonRoundTripEveryList ==
    FormattedAsJson =>
        LET parsed == JSONParse(ret.val.v)
        IN  parsed.ok /\ parsed.value = ValueOfList(ret.key[1])

\* C25 amended: for every non-empty item list the 'json' output parses back to
\* a list of the same length and order whose items carry every field of the
\* input that has a value (a field that is undefined is left out); for the
\* empty list the output is the "No pull requests found." line, which is not
\* JSON.
C25_JsonRoundTrip ==
    FormattedAsJson =>
        LET prs == ret.key[1]
            parsed == JSONParse(ret.val.v)
        IN  IF Len(prs) = 0
            THEN ret.val.v = <<Text("No pull requests found.")>> /\ ~parsed.ok
            ELSE /\ parsed.ok
                 /\ parsed.value = Defined(ValueOfList(prs))
                 /\ Len(parsed.value.v) = Len(prs)
                 /\ \A i \in 1..Len(prs) :
                        parsed.value.v[i] = Defined(ValueOfPR(prs[i]))

C25_Witness ==
    /\ FormattedAsJson
    /\ Len(ret.key[1]) >= 2
    /\ ret.key[1][1] # ret.key[1][2]
    /\ \E i \in 1..Len(ret.key[1]) :
          \E j \in 1..Len(ret.key[1][i].labels) :
              ret.key[1][i].labels[j].description = Undefined
    /\ JSONParse(ret.val.v).ok

(***************************************************************************)
(* C26.  Within one cache-miss invocation the requests are for pages 1, 2,  *)
(* 3, ... with no gap and no repeat; the request for page k + 1 is sent     *)
(* only after the response to page k has arrived; the items returned are    *)
(* the pages received, one after the other in page order, each in the       *)
(* order the upstream sent it: nothing sorted, merged or dropped.           *)
(***************************************************************************)
\* The numbers of the pull requests the upstream sent, in the order sent.
RECURSIVE NumbersReceived(_)
NumbersReceived(pages) ==
    IF pages = <<>> THEN <<>>
    ELSE [i \in 1..Len(pages[1].data) |-> pages[1].data[i].number]
             \o NumbersReceived(Tail(pages))

\* The requests an invocation has sent that are still unanswered.
Unanswered(c) ==
    IF call[c].pc = "awaiting" \/ hist[c].failure # <<>> THEN 1 ELSE 0

C26_PagesInOrder ==
    \A c \in Calls :
        Started(c) =>
            /\ PagesSent(c) = UpTo(Len(hist[c].sent))
            /\ Len(hist[c].sent) = Len(hist[c].recv) + Unanswered(c)
            /\ MissDone(c) =>
                  LET prs == call[c].result[1].prs
                  IN  /\ [i \in 1..Len(prs) |-> prs[i].number]
                            = NumbersReceived(hist[c].recv)
                      /\ \A i \in 1..Len(prs) : prs[i].id = 1000 + prs[i].number

C26_Witness ==
    \E c \in Calls :
        /\ MissDone(c)
        /\ Len(hist[c].recv) = 2
        /\ PagesSent(c) = <<1, 2>>
        /\ NumbersReceived(hist[c].recv) = <<2, 1, 1>>
        /\ Len(call[c].result[1].prs) = 3

(***************************************************************************)
(* C27.  An invocation that finds, under its key, an entry whose time to    *)
(* live has elapsed does not return that entry's value: it removes the      *)
(* entry, sends the request for page 1, and when it returns it has stored   *)
(* a new entry (its own result, the time of storing, the default time to    *)
(* live) under the key; when it fails the key has no entry.                 *)
(***************************************************************************)
FoundStale(c) == hist[c].found = "stale"

C27_Refetches ==
    \A c \in Calls :
        FoundStale(c) =>
            /\ MissPath(c)
            /\ hist[c].sent # <<>>
            /\ hist[c].sent[1].page = 1
            /\ call[c].pc \in {"awaiting", "failed"} =>
                  \A i \in 1..Len(cache) : cache[i].key # hist[c].key

C27_StoresNewEntry ==
    \A c \in Calls :
        (FoundStale(c) /\ hist[c].storedAt = <<>> /\ hist'[c].storedAt # <<>>) =>
            \E i \in 1..Len(cache') :
                /\ cache'[i] = [key |-> hist[c].key,
                                data |-> Obj(call'[c].result[1]),
                                timestamp |-> now,
                                ttl |-> 5 * 60 * 1000]
                /\ \A j \in 1..Len(cache') : cache'[j].key = hist[c].key => j = i

C27_StaleEntryRefetched == [](C27_Refetches) /\ [][C27_StoresNewEntry]_vars

(***************************************************************************)
(* C28.  An invocation that stores a result has sent at least one request;  *)
(* in particular no invocation with maxPages >= 1 is served, from the       *)
(* cache, a result with no items and hasNextPage = true that an invocation  *)
(* with maxPages below 1 (or NaN) stored without sending a request.         *)
(***************************************************************************)
C28_StoredAfterRequest ==
    \A c \in Calls : hist[c].storedAt # <<>> => hist[c].sent # <<>>

C28_NotServedRequestFree ==
    \A c \in Calls :
        (/\ call[c].pc = "done"
         /\ hist[c].storedAt = <<>>
         /\ LessOrEqual(1, MaxPagesOf(c))) =>
            ~(/\ call[c].result[1].prs = <<>>
              /\ call[c].result[1].pagination.hasNextPage
              /\ \E d \in Calls \ {c} :
                    hist[d].storedAt # <<>> /\ hist[d].sent = <<>>)

C28_NoRequestFreeStore == C28_StoredAfterRequest /\ C28_NotServedRequestFree

(***************************************************************************)
(* C29.  For owners and repositories that parseRepo accepts and state,      *)
(* sort and direction of their enumerations (or left to their defaults),    *)
(* two queries that differ in owner, repo, state, sort or direction have    *)
(* different cache keys, and the second is not served what the first        *)
(* stored.                                                                  *)
(***************************************************************************)
QueryOf(q) == Query(OptionsOfQuery(q))

C29_KeyInjective ==
    ret.op = "fetchCacheKeys" =>
        LET q1 == ret.key[1]
            q2 == ret.key[2]
        IN  /\ (ret.val.v[1].key1 = ret.val.v[1].key2) = (QueryOf(q1) = QueryOf(q2))
            /\ (ret.val.v[1].cached # Null) => QueryOf(q1) = QueryOf(q2)

C29_Witness ==
    /\ ret.op = "fetchCacheKeys"
    /\ QueryOf(ret.key[1])[1] = QueryOf(ret.key[2])[1]
    /\ QueryOf(ret.key[1])[2] = <<"r">>
    /\ QueryOf(ret.key[2])[2] = <<"r",":","p","r","s","-","o","p","e","n">>
    /\ ret.key[1].state = <<StrOpen>>
    /\ ret.key[2].sort = <<StrLongRunning>>
    /\ ret.val.v[1].key1 # ret.val.v[1].key2
    /\ ret.val.v[1].cached = Null

(***************************************************************************)
(* C30.  filterPullRequests and sortPullRequests leave the list they are    *)
(* passed as it was: after any sequence of them on a fetched list the       *)
(* cache entry holds the items the upstream sent, in the order it sent      *)
(* them, and an invocation served from the cache returns them in that       *)
(* order.                                                                   *)
(***************************************************************************)
C30_ArgumentUntouched ==
    ret' # ret =>
        /\ cache' = cache
        /\ \A c \in Calls : call'[c].result = call[c].result

C30_UpstreamOrderKept ==
    /\ \A i \in 1..Len(cache) :
          LET prs == cache[i].data.v[1].prs
          IN  [k \in 1..Len(prs) |-> prs[k].number]
                  = NumbersReceived(hist[EntryOrigin(i)].recv)
    /\ \A c \in Calls :
          call[c].pc = "done" =>
              LET prs == call[c].result[1].prs
              IN  [k \in 1..Len(prs) |-> prs[k].number]
                      = NumbersReceived(hist[Origin(c)].recv)

C30_QueryStageLeavesCache ==
    [](C30_UpstreamOrderKept) /\ [][C30_ArgumentUntouched]_vars

\* A sort of the fetched list that returned another order, and then an
\* invocation served from the cache.
C30_Witness ==
    /\ ret.op = "sortPullRequests"
    /\ LET c == ret.key[1]
           d == CHOOSE e \in Calls : e # c
       IN  /\ hist[c].storedAt # <<>>
           /\ NumbersReceived(hist[c].recv) = <<2, 1>>
           /\ [k \in 1..Len(ret.val.v[1]) |-> ret.val.v[1][k].number] = <<1, 2>>
           /\ call[d].pc = "done"
           /\ hist[d].storedAt = <<>>
           /\ hist[d].sent = <<>>
           /\ ret.at <= hist[c].storedAt[1] + 5 * 60 * 1000
           /\ Len(call[d].result[1].prs) = 2

====
